---- MODULE Spec2Model ----
(***************************************************************************)
(* The session/relay subsystem of lcyt-backend: the in-memory SessionStore *)
(* with its reaper, the bearer gate, and the /live, /captions and /sync    *)
(* handlers, run by concurrent request threads.  Each action is one        *)
(* atomic step of a handler: a store operation (taken under the store's    *)
(* RLock), one call on a sender, or one read or write of a session dict.   *)
(***************************************************************************)
EXTENDS Integers, Sequences, FiniteSets, TLC

(***************************************************************************)
(* Bounds of the model.                                                    *)
(***************************************************************************)
MaxObjs == 2        \* senders (and session dicts) constructed in one run
MaxTime == 1        \* the clock runs 0..MaxTime
MaxSeq  == 2        \* no send is started once a sender's sequence is MaxSeq
MaxRtt  == 2        \* measured heartbeat round trips are 0..MaxRtt ms
MaxRequests == 3    \* requests served in one run

(***************************************************************************)
(* State.                                                                  *)
(***************************************************************************)
VARIABLES
    sessions,   \* SessionStore._sessions: session id -> session dict (NoObj: absent)
    heap,       \* the session dicts ever created, by object id
    senders,    \* the YoutubeLiveCaptionSender objects ever constructed, by object id
    db,         \* the api_keys table
    now,        \* the wall clock
    served,     \* the number of requests accepted so far
    env,        \* what the clients send, see Routes
    reaper,     \* the lcyt-session-cleanup thread: "running" (in wait), "sweeping", "exited" or "crashed"
    th,         \* the request threads: position and locals of the running handler
    torn,       \* history: ids torn down by DELETE /live and not registered since
    admin_key,  \* os.environ["ADMIN_KEY"] (None: unset)
    client,     \* a sender used directly through the lcyt library, and its last result
    lib,        \* the last call of a library function: name, arguments, result
    cleanup,    \* SessionStore._stop_event and the caller of stop_cleanup
    mcp         \* the MCP server: its sessions, session_meta and tool calls in flight

\* what the relay's /live, /captions and /sync handlers do not touch
outside == << admin_key, client, lib, cleanup, mcp >>

vars == << sessions, heap, senders, db, now, served, env, reaper, th, torn,
           admin_key, client, lib, cleanup, mcp >>

(***************************************************************************)
(* Values.                                                                 *)
(***************************************************************************)
None    == "<None>"     \* Python None / a JSON field that is absent
Null    == -1           \* SQL NULL in api_keys.expires_at
NoObj   == 0            \* "no session": dict.get() returned None

Threads    == {"t1", "t2"}              \* request-handling threads
ApiKeys    == {"k1", "kr", "ke", "kx"}  \* kx has no row in api_keys
StreamKeys == {"s1", "s2"}
Domains    == {"d1"}
JWT_SECRET == "secret"

\* store.py: session_ttl, the idle timeout, in clock ticks
SessionTtl == 0

\* store.py:67-68  the session_ttl a store is constructed with: one tick
\* longer where the specification is about idle sessions
session_ttl(e) == IF e = "idle" THEN SessionTtl + 1 ELSE SessionTtl

\* the last time of the clock: one tick later where sessions idle
Horizon(e) == IF e = "idle" THEN MaxTime + 1 ELSE MaxTime

\* HTTP statuses the upstream ingestion endpoint answers with
UpstreamStatuses == {200, 400}

\* store.py make_session_id: the digest of "apiKey:streamKey:domain".  The
\* digest is taken to be injective, so the id is the digested string.
make_session_id(api_key, stream_key, domain) ==
    api_key \o ":" \o stream_key \o ":" \o domain

SessionIds ==
    { make_session_id(a, s, d) : a \in ApiKeys, s \in StreamKeys, d \in Domains }

\* claims that carry the time of issue as their expiry
Payload_expiring(api_key, stream_key, domain) ==
    [ sessionId |-> make_session_id(api_key, stream_key, domain),
      apiKey    |-> api_key,
      streamKey |-> stream_key,
      domain    |-> domain,
      exp       |-> now ]

\* live.py: the claims signed into a session token
Payload(api_key, stream_key, domain) ==
    [ sessionId |-> make_session_id(api_key, stream_key, domain),
      apiKey    |-> api_key,
      streamKey |-> stream_key,
      domain    |-> domain ]

\* json.dumps of a claims dict: its members, one "key":value pair each
json_dumps(payload) ==
    [ json |-> TRUE, members |-> { <<k, payload[k]>> : k \in DOMAIN payload } ]

\* bytes that are no JSON document
NotJson == [ json |-> FALSE, members |-> {} ]

\* json.loads: the dict of the members
json_loads(text) ==
    [ k \in { m[1] : m \in text.members } |->
        (CHOOSE m \in text.members : m[1] = k)[2] ]

\* _jwt.py _b64url_encode: a segment of a token
b64url_encode(data) == [ b64 |-> TRUE, data |-> data ]

\* _jwt.py _b64url_decode: the bytes of a segment; a segment that is no
\* base64 raises
b64url_decode(segment) == [ ok |-> segment.b64, data |-> segment.data ]

\* hmac.new(secret, signing_input, sha256).digest()
hmac_digest(secret, signing_input) == [ key |-> secret, msg |-> signing_input ]

\* _jwt.py _HEADER
JwtHeader == b64url_encode("{alg:HS256,typ:JWT}")

\* _jwt.py encode: header.payload.signature, the signature the HMAC of the
\* first two segments under the secret.  A token is the sequence of its
\* "."-separated segments.
jwt_encode(payload, secret) ==
    LET payload_b64   == b64url_encode(json_dumps(payload))
        signing_input == << JwtHeader, payload_b64 >>
    IN  << JwtHeader, payload_b64, b64url_encode(hmac_digest(secret, signing_input)) >>

\* the claims of a request that carries no verified token
NoClaims == Payload("", "", "")

\* decode without the exp test
jwt_decode_unexpiring(token, secret) ==
    IF Len(token) # 3
    THEN [ ok |-> FALSE, error |-> "DecodeError", payload |-> NoClaims ]
    ELSE LET expected_sig == hmac_digest(secret, << token[1], token[2] >>)
             provided_sig == b64url_decode(token[3])
             payload_json == b64url_decode(token[2])
         IN  IF ~provided_sig.ok
             THEN [ ok |-> FALSE, error |-> "DecodeError", payload |-> NoClaims ]
             ELSE IF expected_sig # provided_sig.data
             THEN [ ok |-> FALSE, error |-> "InvalidSignatureError", payload |-> NoClaims ]
             ELSE IF ~payload_json.ok \/ ~payload_json.data.json
             THEN [ ok |-> FALSE, error |-> "DecodeError", payload |-> NoClaims ]
             ELSE [ ok |-> TRUE, error |-> "", payload |-> json_loads(payload_json.data) ]

\* _jwt.py decode: three segments, the signature, the payload, then exp
\* against time.time(); `error` is the exception raised
jwt_decode(token, secret) ==
    IF Len(token) # 3
    THEN [ ok |-> FALSE, error |-> "DecodeError", payload |-> NoClaims ]
    ELSE LET expected_sig == hmac_digest(secret, << token[1], token[2] >>)
             provided_sig == b64url_decode(token[3])
             payload_json == b64url_decode(token[2])
         IN  IF ~provided_sig.ok
             THEN [ ok |-> FALSE, error |-> "DecodeError", payload |-> NoClaims ]
             ELSE IF expected_sig # provided_sig.data
             THEN [ ok |-> FALSE, error |-> "InvalidSignatureError", payload |-> NoClaims ]
             ELSE IF ~payload_json.ok \/ ~payload_json.data.json
             THEN [ ok |-> FALSE, error |-> "DecodeError", payload |-> NoClaims ]
             ELSE LET payload == json_loads(payload_json.data)
                  IN  IF "exp" \in DOMAIN payload /\ payload["exp"] < now
                      THEN [ ok |-> FALSE, error |-> "ExpiredSignatureError",
                             payload |-> NoClaims ]
                      ELSE [ ok |-> TRUE, error |-> "", payload |-> payload ]

\* validate_api_key with the expiry test before the active flag
validate_api_key_expiry_first(conn, key, utcnow) ==
    IF key \notin DOMAIN conn \/ ~conn[key].present
    THEN [ valid |-> FALSE, reason |-> "unknown_key", owner |-> None ]
    ELSE IF conn[key].expires_at # Null /\ conn[key].expires_at < utcnow
    THEN [ valid |-> FALSE, reason |-> "expired", owner |-> None ]
    ELSE IF conn[key].active = 0
    THEN [ valid |-> FALSE, reason |-> "revoked", owner |-> None ]
    ELSE [ valid |-> TRUE,  reason |-> "", owner |-> conn[key].owner ]

\* validate_api_key without the expiry test
validate_api_key_unexpiring(conn, key, utcnow) ==
    IF key \notin DOMAIN conn \/ ~conn[key].present
    THEN [ valid |-> FALSE, reason |-> "unknown_key", owner |-> None ]
    ELSE IF conn[key].active = 0
    THEN [ valid |-> FALSE, reason |-> "revoked", owner |-> None ]
    ELSE [ valid |-> TRUE,  reason |-> "", owner |-> conn[key].owner ]

\* db.py validate_api_key: existence, then the active flag, then expiry
validate_api_key(conn, key, utcnow) ==
    IF key \notin DOMAIN conn \/ ~conn[key].present
    THEN [ valid |-> FALSE, reason |-> "unknown_key", owner |-> None ]
    ELSE IF conn[key].active = 0
    THEN [ valid |-> FALSE, reason |-> "revoked", owner |-> None ]
    ELSE IF conn[key].expires_at # Null /\ conn[key].expires_at < utcnow
    THEN [ valid |-> FALSE, reason |-> "expired", owner |-> None ]
    ELSE [ valid |-> TRUE,  reason |-> "", owner |-> conn[key].owner ]

(***************************************************************************)
(* Requests.                                                               *)
(***************************************************************************)
\* the optional "sequence" field of a POST /live body
SequenceAbsent == [ kind |-> "absent", val |-> 0 ]

SequenceFields ==
    { SequenceAbsent,
      [ kind |-> "int",    val |-> 1 ],
      [ kind |-> "text",   val |-> 0 ] }    \* e.g. "abc", or null

\* live.py:45  int(body.get("sequence", 0))
int_of(field) ==
    CASE field.kind = "absent" -> [ ok |-> TRUE,  val |-> 0 ]
      [] field.kind = "int"    -> [ ok |-> TRUE,  val |-> field.val ]
      [] OTHER                 -> [ ok |-> FALSE, val |-> 0 ]

\* the "captions" field of a POST /captions body: not a list, or a list of
\* entries, each named after its shape: {"text"}, {"text","time"},
\* {"text","timestamp"}, {"text","time","timestamp"} ("both"),
\* {"text","time":"x"}, {"text":""}, or an entry that is no JSON object
NotAList == << "not-a-list" >>
CaptionLists ==
    { <<>>, <<"text">>, <<"time">>, <<"timestamp">>, <<"both">>, <<"badtime">>,
      <<"notext">>, <<"nondict">>,
      <<"text", "time">>, <<"text", "nondict">>, <<"both", "text", "time">> }
CaptionFields == CaptionLists \cup { NotAList }

NoToken == jwt_encode(Payload("", "", ""), "")

\* the "expires" field of a /keys body: absent, or null or "" (at = Null),
\* or a time
NoExpires == [ given |-> FALSE, at |-> Null ]
ExpiresFields == { NoExpires } \cup [ given : {TRUE}, at : { Null, 0 } ]

NoBody ==
    [ apiKey |-> None, streamKey |-> None, domain |-> None,
      sequence |-> [ kind |-> "absent", val |-> 0 ],
      bearer |-> FALSE, token |-> NoToken, captions |-> NotAList,
      admin |-> "", key |-> None, owner |-> None, expires |-> NoExpires,
      permanent |-> FALSE, origin |-> "", method |-> "", path |-> "" ]

RegisterBody(a, s, d, q) ==
    [ NoBody EXCEPT !.apiKey = a, !.streamKey = s, !.domain = d, !.sequence = q ]

BearerBody(k) == [ NoBody EXCEPT !.bearer = TRUE, !.token = k ]

\* What the clients send.  Under "relay" two threads serve well-formed
\* requests on every route for one triple, together with the one malformed
\* registration; under "keys" one thread serves registrations of every
\* shape and for every kind of key, and teardowns; under
\* "shapes" one thread registers one triple and serves caption requests of
\* every shape; under "gate" one thread serves every route with every kind
\* of Authorization header.
Serving(e) == IF e = "relay" THEN Threads ELSE {"t1"}

Routes(e) ==
    CASE e \in { "relay", "gate" }
                      -> { "register", "status", "remove", "captions", "sync" }
      [] e = "keys"   -> { "register", "remove" }
      [] e = "admin"  -> { "register", "list_keys", "create_api_key", "get_api_key",
                           "update_api_key", "delete_api_key" }
      [] e = "sync"   -> { "register", "sync" }
      [] e \in { "lib", "client" } -> {}
      [] e = "cors"   -> { "register", "status", "remove", "list_keys",
                           "health", "preflight", "unrouted" }
      [] e = "stop"   -> { "register" }
      [] e = "mcp"    -> {}
      [] e = "idle"   -> { "register", "status" }
      [] e = "revoked" -> { "register", "status", "remove", "captions", "sync",
                            "delete_api_key" }
      [] OTHER        -> { "register", "captions" }

SequenceText == [ kind |-> "text", val |-> 0 ]

\* the Origin headers of the requests: none, the domain of the one triple,
\* and an origin no session is registered for
Origins == { "", "d1", "o2" }

\* the requests of a set, each with every Origin header where the
\* specification is about the CORS headers
WithOrigins(e, bodies) ==
    IF e = "cors" THEN { [ b EXCEPT !.origin = o ] : b \in bodies, o \in Origins }
    ELSE bodies

RegisterBodies(e) ==
    CASE e = "relay"  ->
           { RegisterBody("k1", "s1", "d1", q) : q \in { SequenceAbsent, SequenceText } }
      [] e = "keys"   ->
           { RegisterBody(a, "s1", "d1", q) :
               a \in ApiKeys \cup {None, ""}, q \in { SequenceAbsent, SequenceText } }
           \cup { RegisterBody("k1", "s1", "d1", [ kind |-> "int", val |-> 1 ]),
                  RegisterBody("k1", None, "d1", SequenceAbsent),
                  RegisterBody("k1", "s1", None, SequenceAbsent),
                  RegisterBody("kx", None, "d1", SequenceAbsent),
                  RegisterBody("kr", "s1", "", SequenceAbsent) }
      [] e = "admin"  ->
           { RegisterBody(a, "s1", "d1", SequenceAbsent) : a \in { "k1", "kx" } }
      [] e = "sync"   ->
           { RegisterBody("k1", "s1", "d1", q) :
               q \in { SequenceAbsent, [ kind |-> "int", val |-> 1 ] } }
      [] e = "cors"   ->
           WithOrigins(e, { RegisterBody("k1", "s1", "d1", SequenceAbsent),
                            RegisterBody("k1", None, "d1", SequenceAbsent) })
      [] e = "idle"   ->
           { RegisterBody("k1", s, "d1", SequenceAbsent) : s \in StreamKeys }
      [] OTHER        -> { RegisterBody("k1", "s1", "d1", SequenceAbsent) }

\* the requests on the /keys routes: the X-Admin-Key header, the key of the
\* path (of the body for POST /keys), and the fields the route reads
AdminBodies(route) ==
    LET with(h, k, o, x, p) ==
            [ NoBody EXCEPT !.admin = h, !.key = k, !.owner = o, !.expires = x,
                            !.permanent = p ]
        refused(k, o) ==
            { with(h, k, o, NoExpires, FALSE) : h \in { "", "bad" } }
    IN  CASE route = "list_keys" ->
               { with("adm", None, None, NoExpires, FALSE) } \cup refused(None, None)
          [] route = "get_api_key" ->
               { with("adm", k, None, NoExpires, FALSE) : k \in { "k1", "kx" } }
               \cup refused("k1", None)
          [] route = "delete_api_key" ->
               { with("adm", k, None, NoExpires, p) : k \in { "k1", "kx" }, p \in BOOLEAN }
               \cup { with(h, "k1", None, NoExpires, TRUE) : h \in { "", "bad" } }
          [] route = "create_api_key" ->
               { with("adm", k, o, x, FALSE) :
                   k \in { None, "k1" }, o \in { "", "dave" },
                   x \in { NoExpires, [ given |-> TRUE, at |-> 0 ] } }
               \cup refused(None, "dave")
          [] OTHER ->
               { with("adm", k, o, x, FALSE) :
                   k \in { "k1", "kx" }, o \in { None, "dave" }, x \in ExpiresFields }
               \cup refused("k1", "dave")

\* the claims of a session token with an exp claim added
Expiring(payload, exp) ==
    [ k \in DOMAIN payload \cup { "exp" } |-> IF k = "exp" THEN exp ELSE payload[k] ]

\* the tokens a client can hold that the relay did not sign as they are:
\* signed with another secret, cut to two segments, with a signature
\* segment that is no base64, with the payload of another session under
\* k1's signature, and with signed bytes that are no JSON
ForgedTokens ==
    LET good == jwt_encode(Payload("k1", "s1", "d1"), JWT_SECRET)
        raw  == b64url_encode(NotJson)
    IN  { jwt_encode(Payload("k1", "s1", "d1"), "other-secret"),
          << good[1], good[2] >>,
          << good[1], good[2], [ b64 |-> FALSE, data |-> good[3].data ] >>,
          << good[1], jwt_encode(Payload("ke", "s1", "d1"), JWT_SECRET)[2], good[3] >>,
          << good[1], raw, b64url_encode(hmac_digest(JWT_SECRET, << good[1], raw >>)) >> }

\* tokens signed with the relay's secret that carry an exp claim
ExpiringTokens ==
    { jwt_encode(Expiring(Payload("k1", "s1", "d1"), x), JWT_SECRET) : x \in 0..MaxTime }

Tokens(e) ==
    CASE e \in { "relay", "sync", "cors", "revoked" }
                     -> { jwt_encode(Payload("k1", "s1", "d1"), JWT_SECRET) }
      [] e = "gate"  -> { jwt_encode(Payload("k1", "s1", "d1"), JWT_SECRET) }
                        \cup ForgedTokens \cup ExpiringTokens
      [] e = "idle"  -> { jwt_encode(Payload("k1", s, "d1"), JWT_SECRET) : s \in StreamKeys }
      [] OTHER       -> { jwt_encode(Payload(a, "s1", "d1"), JWT_SECRET) : a \in {"k1", "ke"} }
                        \cup { jwt_encode(Payload("k1", "s1", "d1"), "other-secret") }

\* an Authorization header of another scheme that carries token k
BasicBody(k) == [ NoBody EXCEPT !.token = k ]

BearerBodies(e) ==
    WithOrigins(e,
      { BearerBody(k) : k \in Tokens(e) }
      \cup (IF e \in { "relay", "sync", "idle", "revoked" } THEN {} ELSE { NoBody })
      \cup (IF e = "gate"
            THEN { BasicBody(jwt_encode(Payload("k1", "s1", "d1"), JWT_SECRET)) } ELSE {}))

CaptionBodies(e) ==
    { [ b EXCEPT !.captions = c ] :
        b \in BearerBodies(e),
        c \in CASE e = "shapes" -> CaptionFields
                 [] e = "gate"   -> { <<"text">>, NotAList }
                 [] OTHER        -> { <<"text">> } }

\* db.py init_db: the rows of api_keys.  k1 is active and never expires, kr
\* is revoked, ke expires at time 0, kx has no row.
KeyRow(k) ==
    CASE k = "k1" -> [ present |-> TRUE,  active |-> 1, expires_at |-> Null, owner |-> "alice",
                       created_at |-> 0 ]
      [] k = "kr" -> [ present |-> TRUE,  active |-> 0, expires_at |-> Null, owner |-> "bob",
                       created_at |-> 0 ]
      [] k = "ke" -> [ present |-> TRUE,  active |-> 1, expires_at |-> 0,    owner |-> "carol",
                       created_at |-> 0 ]
      [] OTHER    -> [ present |-> FALSE, active |-> 0, expires_at |-> Null, owner |-> None,
                       created_at |-> Null ]

\* every row a key can have: absent, or active or not, with no expiry or one
\* at a time of the clock
KeyRows ==
    { KeyRow("kx") } \cup
    [ present : {TRUE}, active : {0, 1}, expires_at : {Null} \cup 0..MaxTime,
      owner : {"alice", "bob"}, created_at : { 0 } ]

\* the api_keys tables a run starts with: under "lib" k1 has any row
Tables(e) ==
    IF e = "lib"
    THEN { [ k \in ApiKeys |-> IF k = "k1" THEN r ELSE KeyRow(k) ] : r \in KeyRows }
    ELSE { [ k \in ApiKeys |-> KeyRow(k) ] }

\* the ADMIN_KEY a deployment is started with
AdminKeys(e) ==
    CASE e = "admin" -> { None, "", "adm" }
      [] e = "cors"  -> { None, "adm" }
      [] OTHER       -> { "adm" }

\* no library call was made yet
NoCall ==
    [ fn |-> "none", at |-> 0, claims |-> NoClaims, secret |-> "", verify |-> "",
      decoded |-> [ ok |-> FALSE, error |-> "", payload |-> NoClaims ],
      key |-> None, row |-> KeyRow("kx"),
      validated |-> [ valid |-> FALSE, reason |-> "", owner |-> None ],
      returned |-> FALSE, triples |-> << >>, ids |-> << >>, token |-> << >>,
      owner |-> None, expires |-> [ given |-> FALSE, at |-> Null ] ]

\* sender.py _send_post:523: the server timestamp of an upstream response:
\* None for an empty body, else the body, a time or some other text
NoServerTimestamp == [ kind |-> "none", ms |-> 0 ]
ServerTimestamps ==
    { NoServerTimestamp, [ kind |-> "text", ms |-> 0 ] }
    \cup { [ kind |-> "time", ms |-> m ] : m \in { 1000, 1003 } }

\* what the upstream does with one heartbeat POST: the transport fails, or
\* it answers with a status and a body after rtt ms
HeartbeatOutcomes(e) ==
    IF e \in { "sync", "client" }
    THEN [ raises : BOOLEAN, status : UpstreamStatuses,
           server_timestamp : ServerTimestamps, rtt : 0..MaxRtt,
           us : IF e = "sync" THEN { 0, 999 } ELSE { 0 } ]
    ELSE [ raises : BOOLEAN, status : { 200 },
           server_timestamp : { [ kind |-> "time", ms |-> 1000 ] }, rtt : 0..MaxRtt,
           us : { 0 } ]

\* t1 - t0 of time.monotonic() around the heartbeat, in microseconds: rtt
\* whole milliseconds and us microseconds more
elapsed_us(io) == io.rtt * 1000 + io.us

\* sync.py:29, live.py:25  rtt_ms = int((t1 - t0) * 1000)
rtt_ms(elapsed) == elapsed \div 1000

\* an offset that is half the round trip rounded up
sync_offset_rounded_up(rtt) == (rtt + 1) \div 2

\* sync.py:30, live.py:26  sync_offset = rtt_ms // 2
sync_offset_of(rtt) == rtt \div 2

\* sender.py SendResult: no result
NoResult == [ sequence |-> 0, status_code |-> 0, server_timestamp |-> NoServerTimestamp ]

\* sender.py __init__: a sender that was not started
NoSender ==
    [ sequence |-> 0, started |-> FALSE, sync_offset |-> 0, use_sync_offset |-> FALSE,
      ends |-> 0, raised |-> FALSE, by |-> "nobody" ]

\* the last call on the library's sender: the method, the exception it
\* raised ("" for none), the sync_offset and round_trip_time a sync
\* returned, the SendResult
\* and, as history, whether the transport answered its heartbeat
NoLast ==
    [ fn |-> "none", raised |-> "", sync_offset |-> 0, round_trip_time |-> 0,
      result |-> NoResult, transport |-> "none", count |-> 0 ]

\* no sender was constructed through the library yet
NoClient == [ made |-> FALSE, sender |-> NoSender, last |-> NoLast ]

\* a timestamp that is None
NoTimestamp == [ kind |-> "none", ms |-> 0 ]

\* the four Access-Control-* headers of a response, "" for a header that is
\* not set: Allow-Origin, Allow-Methods, Allow-Headers, Allow-Credentials
NoCors ==
    [ allow_origin |-> "", allow_methods |-> "", allow_headers |-> "",
      allow_credentials |-> "" ]

\* shape: the fields of a /captions response: "single" (sequence, timestamp,
\* statusCode, serverTimestamp), "batch" (sequence, count, statusCode,
\* serverTimestamp) or "error"
NoResp ==
    [ status |-> 0, token |-> NoToken, sessionId |-> None, sequence |-> 0,
      row |-> KeyRow("kx"), shape |-> "none", count |-> 0,
      cors |-> NoCors, removed |-> FALSE, syncOffset |-> 0, activeSessions |-> 0 ]

\* store.py:50  the stop event is clear and nobody has called stop_cleanup;
\* caller is the position of the thread that calls it: "none", "joining"
\* (in join(timeout=5)) or "returned"
NoCleanup == [ stop_event |-> FALSE, caller |-> "none" ]

\* the MCP tool calls that run concurrently on the event loop
Tasks == { "a", "b" }

\* a task that runs no tool call; raised is the exception of its last call
NoTask == [ pc |-> "idle", tool |-> "none", session_id |-> 0, raised |-> "" ]

\* server.py:117-118  sessions = {}, session_meta = {}; the session ids are
\* 1, 2, ... in the order secrets.token_hex gives them; ends[i] counts the
\* calls of end() of the sender of session i
NoMcp ==
    [ sessions |-> {}, session_meta |-> {}, issued |-> 0,
      ends |-> [ i \in 1..MaxObjs |-> 0 ],
      task |-> [ k \in Tasks |-> NoTask ] ]

\* a request thread before its first request; the fields are the handlers' locals:
\*   sid: session_id           ref: the session dict fetched by store.get
\*   made: the sender this request constructed
\*   sent: send_batch's sent_sequence     tmp: a value read and not yet used
\*   n: len(captions)          upstream: the upstream status of the send
\*   result, rtt: the SendResult of the heartbeat of a sync and rtt_ms
\*   call, args: the sender method /captions called and the captions it passed
\*   calls: history, the number of calls of send or send_batch by this request
\*   after: history, the request looked its session up after a DELETE /live
\*          of that id had returned 200 and before any registration stored
\*          the id again
Idle ==
    [ pc |-> "idle", op |-> "none", body |-> NoBody, sid |-> None, ref |-> NoObj,
      made |-> NoObj, sent |-> 0, tmp |-> 0, n |-> 0, upstream |-> 0,
      result |-> NoResult, rtt |-> 0, elapsed |-> 0,
      call |-> "none", args |-> << >>, calls |-> 0, after |-> FALSE,
      resp |-> NoResp ]

InitIn(e) ==
    /\ env = e
    /\ served = 0
    /\ sessions = [ sid \in SessionIds |-> NoObj ]
    /\ heap = << >>
    /\ senders = << >>
    /\ db \in Tables(e)
    /\ now = 0
    /\ reaper = "running"
    /\ th = [ t \in Threads |-> Idle ]
    /\ torn = {}
    /\ admin_key \in AdminKeys(e)
    /\ client = NoClient
    /\ lib = NoCall
    /\ cleanup = NoCleanup
    /\ mcp = NoMcp

(***************************************************************************)
(* SessionStore and sender operations.                                     *)
(***************************************************************************)
\* a touch that puts the caller's session dict back under an absent id
touched_reinserting(ss, sid, ref) ==
    [ ss EXCEPT ![sid] = IF @ = NoObj THEN ref ELSE @ ]

\* store.py:128-133  _sessions after touch: it reads the id with .get and
\* stores nothing
touched(ss, sid, ref) == ss

\* store.py touch: last_activity_at := now, a no-op for an absent id
touch(hp, ss, sid, t) ==
    IF ss[sid] # NoObj THEN [ hp EXCEPT ![ss[sid]].last_activity_at = t ] ELSE hp

\* sender.py end: _started := False.  A sender whose end() raises is taken
\* to fail before it stops.  ends, raised and by are history.
end(s, raises, who) ==
    IF raises
    THEN [ s EXCEPT !.ends = @ + 1, !.raised = TRUE, !.by = who ]
    ELSE [ s EXCEPT !.started = FALSE, !.ends = @ + 1, !.by = who ]

\* a heartbeat that counts as a caption: the sequence advances on 2xx
heartbeat_advancing(s, io) ==
    IF ~s.started
    THEN [ raised |-> "ValidationError", sender |-> s, result |-> NoResult ]
    ELSE IF io.raises
    THEN [ raised |-> "NetworkError", sender |-> s, result |-> NoResult ]
    ELSE [ raised |-> "",
           sender |-> IF io.status \in 200..299
                      THEN [ s EXCEPT !.sequence = @ + 1 ] ELSE s,
           result |-> [ sequence         |-> s.sequence,
                        status_code      |-> io.status,
                        server_timestamp |-> io.server_timestamp ] ]

\* sender.py heartbeat: _ensure_started, then an empty POST under the
\* current sequence; the sender afterwards, the exception or the SendResult
heartbeat(s, io) ==
    IF ~s.started
    THEN [ raised |-> "ValidationError", sender |-> s, result |-> NoResult ]
    ELSE IF io.raises
    THEN [ raised |-> "NetworkError", sender |-> s, result |-> NoResult ]
    ELSE [ raised |-> "",
           sender |-> s,
           result |-> [ sequence         |-> s.sequence,
                        status_code      |-> io.status,
                        server_timestamp |-> io.server_timestamp ] ]

\* Python's round of half of an integer: to the nearest, a tie to the even
round_half(twice) ==
    IF twice % 2 = 0 THEN twice \div 2
    ELSE LET below == (twice - 1) \div 2
         IN  IF below % 2 = 0 THEN below ELSE below + 1

\* a batch that advances the sequence by the number of its captions
send_batch_per_caption(s, captions, io) ==
    IF ~s.started \/ Len(captions) = 0
    THEN [ raised |-> "ValidationError", sender |-> s, result |-> NoResult, count |-> 0 ]
    ELSE IF io.raises
    THEN [ raised |-> "NetworkError", sender |-> s, result |-> NoResult, count |-> 0 ]
    ELSE [ raised |-> "",
           sender |-> IF io.status \in 200..299
                      THEN [ s EXCEPT !.sequence = @ + Len(captions) ] ELSE s,
           result |-> [ sequence         |-> s.sequence,
                        status_code      |-> io.status,
                        server_timestamp |-> io.server_timestamp ],
           count  |-> Len(captions) ]

\* sender.py:201-254  send_batch: _ensure_started, a non-empty list, one POST
\* under sent_sequence = self._sequence, which advances by one on 2xx
send_batch(s, captions, io) ==
    IF ~s.started \/ Len(captions) = 0
    THEN [ raised |-> "ValidationError", sender |-> s, result |-> NoResult, count |-> 0 ]
    ELSE IF io.raises
    THEN [ raised |-> "NetworkError", sender |-> s, result |-> NoResult, count |-> 0 ]
    ELSE [ raised |-> "",
           sender |-> IF io.status \in 200..299
                      THEN [ s EXCEPT !.sequence = @ + 1 ] ELSE s,
           result |-> [ sequence         |-> s.sequence,
                        status_code      |-> io.status,
                        server_timestamp |-> io.server_timestamp ],
           count  |-> Len(captions) ]

\* sender.py:149-179  send: one caption, through send_batch
send(s, text, io) ==
    IF ~s.started \/ text = ""
    THEN [ raised |-> "ValidationError", sender |-> s, result |-> NoResult, count |-> 0 ]
    ELSE send_batch(s, << text >>, io)

\* a sync that forgets the offset when its heartbeat raises
sync_forgetting(s, io, t1_wall_ms) ==
    LET hb == heartbeat(s, io)
    IN  IF hb.raised # ""
        THEN [ raised |-> hb.raised, sender |-> [ hb.sender EXCEPT !.sync_offset = 0 ],
               sync_offset |-> 0, result |-> NoResult ]
        ELSE IF io.server_timestamp.kind = "none"
        THEN [ raised |-> "", sender |-> hb.sender,
               sync_offset |-> hb.sender.sync_offset,
               result |-> [ hb.result EXCEPT !.server_timestamp = NoServerTimestamp ] ]
        ELSE IF io.server_timestamp.kind = "text"
        THEN [ raised |-> "ValueError", sender |-> hb.sender, sync_offset |-> 0,
               result |-> NoResult ]
        ELSE LET offset == round_half(2 * io.server_timestamp.ms
                                      - (t1_wall_ms + t1_wall_ms + io.rtt))
             IN  [ raised |-> "",
                   sender |-> [ hb.sender EXCEPT !.sync_offset = offset,
                                                 !.use_sync_offset = TRUE ],
                   sync_offset |-> offset, result |-> hb.result ]

\* a sync that stores half the round trip when the response has no server
\* timestamp
sync_storing_half_rtt(s, io, t1_wall_ms) ==
    LET hb == heartbeat(s, io)
    IN  IF hb.raised # ""
        THEN [ raised |-> hb.raised, sender |-> hb.sender, sync_offset |-> 0,
               result |-> NoResult ]
        ELSE IF io.server_timestamp.kind = "text"
        THEN [ raised |-> "ValueError", sender |-> hb.sender, sync_offset |-> 0,
               result |-> NoResult ]
        ELSE LET offset == IF io.server_timestamp.kind = "none" THEN io.rtt \div 2
                           ELSE round_half(2 * io.server_timestamp.ms
                                           - (t1_wall_ms + t1_wall_ms + io.rtt))
             IN  [ raised |-> "",
                   sender |-> [ hb.sender EXCEPT !.sync_offset = offset,
                                                 !.use_sync_offset = TRUE ],
                   sync_offset |-> offset, result |-> hb.result ]

\* sender.py sync: a heartbeat between two readings of the wall clock; with
\* no server timestamp the offset stays; a body that is no ISO time raises
\* in datetime.fromisoformat; else the offset is the server's time less the
\* midpoint of the two readings, rounded
sync(s, io, t1_wall_ms) ==
    LET hb == heartbeat(s, io)
    IN  IF hb.raised # ""
        THEN [ raised |-> hb.raised, sender |-> hb.sender, sync_offset |-> 0,
               result |-> NoResult ]
        ELSE IF io.server_timestamp.kind = "none"
        THEN [ raised |-> "", sender |-> hb.sender,
               sync_offset |-> hb.sender.sync_offset,
               result |-> [ hb.result EXCEPT !.server_timestamp = NoServerTimestamp ] ]
        ELSE IF io.server_timestamp.kind = "text"
        THEN [ raised |-> "ValueError", sender |-> hb.sender, sync_offset |-> 0,
               result |-> NoResult ]
        ELSE LET offset == round_half(2 * io.server_timestamp.ms
                                      - (t1_wall_ms + t1_wall_ms + io.rtt))
             IN  [ raised |-> "",
                   sender |-> [ hb.sender EXCEPT !.sync_offset = offset,
                                                 !.use_sync_offset = TRUE ],
                   sync_offset |-> offset, result |-> hb.result ]

\* a gate that verifies the token of any Authorization header
require_auth_any_scheme(body) == jwt_decode(body.token, JWT_SECRET)

\* a gate that also validates the API key of the claims
require_auth_validating_key(body) ==
    LET decoded == IF ~body.bearer
                   THEN [ ok |-> FALSE, error |-> "no bearer", payload |-> NoClaims ]
                   ELSE jwt_decode(body.token, JWT_SECRET)
    IN  IF decoded.ok /\ ~validate_api_key(db, decoded.payload.apiKey, now).valid
        THEN [ ok |-> FALSE, error |-> "invalid key", payload |-> NoClaims ]
        ELSE decoded

\* middleware/auth.py require_auth: the decoded claims, or 401
require_auth(body) ==
    IF ~body.bearer
    THEN [ ok |-> FALSE, error |-> "no bearer", payload |-> NoClaims ]
    ELSE jwt_decode(body.token, JWT_SECRET)

\* the session ids whose last activity is at now - TTL or before
expired_inclusive(ss, hp, t) ==
    { sid \in DOMAIN ss :
        ss[sid] # NoObj /\ hp[ss[sid]].last_activity_at <= t - session_ttl(env) }

\* the session ids whose session is idle: last activity before now - TTL
expired(ss, hp, t) ==
    { sid \in DOMAIN ss :
        ss[sid] # NoObj /\ hp[ss[sid]].last_activity_at < t - session_ttl(env) }

(***************************************************************************)
(* POST /live: register_session.                                           *)
(***************************************************************************)
\* where a thread takes its next request: once the handler has returned,
\* and, where the after_request hooks are modelled, once they have run
Ready(e) == IF e = "cors" THEN { "idle", "sent" } ELSE { "idle", "done" }

\* a thread that is not serving a request accepts one for `route`; its
\* last request and response stay visible until then
Accept(t, route) ==
    /\ th[t].pc \in Ready(env)
    /\ t \in Serving(env)
    /\ route \in Routes(env)
    /\ served < MaxRequests
    /\ served' = served + 1

\* a registration that validates the key before it checks the required fields
register_session_key_first(t) ==
    /\ Accept(t, "register")
    /\ \E body \in RegisterBodies(env) :
         LET me    == [ Idle EXCEPT !.op = "register", !.body = body ]
             seq   == int_of(body.sequence)
             blank == \E f \in { body.apiKey, body.streamKey, body.domain } :
                         f \in { None, "" }
         IN  th' = [ th EXCEPT ![t] =
               IF ~seq.ok
               THEN [ me EXCEPT !.pc = "done", !.resp.status = 500 ]
               ELSE IF ~validate_api_key(db, body.apiKey, now).valid
               THEN [ me EXCEPT !.pc = "done", !.resp.status = 401 ]
               ELSE IF blank
               THEN [ me EXCEPT !.pc = "done", !.resp.status = 400 ]
               ELSE [ me EXCEPT !.pc = "reg_has", !.tmp = seq.val,
                        !.sid = make_session_id(body.apiKey, body.streamKey, body.domain) ] ]
    /\ UNCHANGED << sessions, heap, senders, db, now, env, reaper, torn, outside >>

\* live.py:41-56: parse the body, check the required fields, validate the key
register_session(t) ==
    /\ Accept(t, "register")
    /\ \E body \in RegisterBodies(env) :
         LET me    == [ Idle EXCEPT !.op = "register", !.body = body ]
             seq   == int_of(body.sequence)
             blank == \E f \in { body.apiKey, body.streamKey, body.domain } :
                         f \in { None, "" }
         IN  th' = [ th EXCEPT ![t] =
               IF ~seq.ok
               THEN [ me EXCEPT !.pc = "done", !.resp.status = 500 ]   \* ValueError escapes
               ELSE IF blank
               THEN [ me EXCEPT !.pc = "done", !.resp.status = 400 ]
               ELSE IF ~validate_api_key(db, body.apiKey, now).valid
               THEN [ me EXCEPT !.pc = "done", !.resp.status = 401 ]
               ELSE [ me EXCEPT !.pc = "reg_has", !.tmp = seq.val,
                        !.sid = make_session_id(body.apiKey, body.streamKey, body.domain) ] ]
    /\ UNCHANGED << sessions, heap, senders, db, now, env, reaper, torn, outside >>

\* live.py:59  if store.has(session_id)
register_has(t) ==
    /\ th[t].pc = "reg_has"
    /\ th' = [ th EXCEPT ![t].pc =
                 IF sessions[th[t].sid] # NoObj THEN "reg_get" ELSE "reg_new" ]
    /\ UNCHANGED << sessions, heap, senders, db, now, served, env, reaper, torn, outside >>

\* live.py:60  existing = store.get(session_id)
register_get(t) ==
    /\ th[t].pc = "reg_get"
    /\ th' = [ th EXCEPT ![t].pc = "reg_touch", ![t].ref = sessions[th[t].sid] ]
    /\ UNCHANGED << sessions, heap, senders, db, now, served, env, reaper, torn, outside >>

\* the idempotent branch answering with a token signed afresh under
\* another secret
existing_response_resigned(me, hp) ==
    [ me EXCEPT !.pc = "done",
                !.resp = [ NoResp EXCEPT
                           !.status    = 200,
                           !.token     = jwt_encode(Payload("k1", "s1", "d1"), "other-secret"),
                           !.sessionId = me.sid,
                           !.sequence  = hp[me.ref].sequence ] ]

\* the response of the idempotent branch, live.py:62-71
existing_response(me, hp) ==
    [ me EXCEPT !.pc = "done",
                !.resp = [ NoResp EXCEPT
                           !.status    = 200,
                           !.token     = hp[me.ref].jwt,
                           !.sessionId = me.sid,
                           !.sequence  = hp[me.ref].sequence,
                           !.syncOffset = hp[me.ref].sync_offset,
                           !.cors.allow_origin = me.body.domain ] ]

\* live.py:61-71: store.touch, then the response built from existing
register_existing(t) ==
    /\ th[t].pc = "reg_touch"
    /\ sessions' = touched(sessions, th[t].sid, th[t].ref)
    /\ heap' = touch(heap, sessions, th[t].sid, now)
    /\ th' = [ th EXCEPT ![t] =
                 IF th[t].ref = NoObj
                 THEN [ th[t] EXCEPT !.pc = "done", !.resp.status = 500 ]  \* None["jwt"]
                 ELSE existing_response(th[t], heap') ]
    /\ UNCHANGED << senders, db, now, served, env, reaper, torn, outside >>

\* a sender that is constructed but not started
new_sender_unstarted(sequence) == [ NoSender EXCEPT !.sequence = sequence ]

\* sender.py __init__ and start (the stream key is non-empty here)
new_sender(sequence) == [ NoSender EXCEPT !.sequence = sequence, !.started = TRUE ]

\* an initial sync whose failure is not noticed: half the round trip
measured_offset(hb, io) == sync_offset_of(rtt_ms(elapsed_us(io)))

\* live.py:79-84: sync_offset = 0, replaced by the offset of _sync_sender
\* unless it raises
best_effort_offset(hb, io) ==
    IF hb.raised # "" THEN 0 ELSE sync_offset_of(rtt_ms(elapsed_us(io)))

\* live.py:73-83: construct the sender, start it, best-effort initial sync
register_new(t) ==
    /\ th[t].pc = "reg_new"
    /\ Len(senders) < MaxObjs
    /\ \E io \in HeartbeatOutcomes(env) :
         LET hb == heartbeat(new_sender(th[t].tmp), io)
         IN  /\ senders' = Append(senders, hb.sender)
             /\ th' = [ th EXCEPT ![t].pc = "reg_create",
                                   ![t].made = Len(senders) + 1,
                                   ![t].result = hb.result,
                                   ![t].elapsed = IF hb.raised # "" THEN 0
                                                  ELSE elapsed_us(io),
                                   ![t].rtt = IF hb.raised # "" THEN 0
                                              ELSE rtt_ms(elapsed_us(io)),
                                   ![t].tmp = best_effort_offset(hb, io) ]
    /\ UNCHANGED << sessions, heap, db, now, served, env, reaper, torn, outside >>

\* store.py create: the session dict stored under its id
create(api_key, stream_key, domain, jwt, sender, sequence, sync_offset, t) ==
    [ session_id       |-> make_session_id(api_key, stream_key, domain),
      domain           |-> domain,
      jwt              |-> jwt,
      sequence         |-> sequence,
      sync_offset      |-> sync_offset,
      sender           |-> sender,
      started_at       |-> t,
      last_activity_at |-> t ]

\* live.py:86-114: sign the token, store.create, respond.  The result of
\* the initial sync is a local of the handler; it stays visible after the
\* response under "sync", as history.
register_create(t) ==
    /\ th[t].pc = "reg_create"
    /\ LET me      == th[t]
           b       == me.body
           token   == jwt_encode(Payload(b.apiKey, b.streamKey, b.domain), JWT_SECRET)
           session == create(b.apiKey, b.streamKey, b.domain, token, me.made,
                             senders[me.made].sequence, me.tmp, now)
       IN  /\ heap' = Append(heap, session)
           /\ sessions' = [ sessions EXCEPT ![session.session_id] = Len(heap) + 1 ]
           /\ torn' = torn \ { me.sid }
           /\ th' = [ th EXCEPT ![t] =
                        [ me EXCEPT !.pc = "done", !.rtt = 0, !.elapsed = 0,
                                    !.result = IF env = "sync" THEN @ ELSE NoResult,
                                    !.resp = [ NoResp EXCEPT
                                               !.status    = 200,
                                               !.token     = token,
                                               !.sessionId = me.sid,
                                               !.sequence  = session.sequence,
                                               !.syncOffset = session.sync_offset,
                                               !.cors.allow_origin = b.domain ] ] ]
    /\ UNCHANGED << senders, db, now, served, env, reaper, outside >>

(***************************************************************************)
(* The bearer-protected routes.  Each begins with require_auth and the     *)
(* handler's store.get.                                                    *)
(***************************************************************************)
\* auth.py:23-39 and the handler's lookup: 401, 404, or on to `pc`
Lookup(me, pc) ==
    LET auth == require_auth(me.body)
        sid  == auth.payload.sessionId
    IN  IF ~auth.ok
        THEN [ me EXCEPT !.pc = "done", !.resp.status = 401 ]
        ELSE IF sessions[sid] = NoObj
        THEN [ me EXCEPT !.pc = "done", !.resp.status = 404,
                         !.sid = sid, !.after = sid \in torn ]
        ELSE [ me EXCEPT !.pc = pc, !.sid = sid, !.ref = sessions[sid],
                         !.after = sid \in torn ]

\* GET /live, live.py:120-126
session_status(t) ==
    /\ Accept(t, "status")
    /\ \E body \in BearerBodies(env) :
         th' = [ th EXCEPT ![t] =
                   Lookup([ Idle EXCEPT !.op = "status", !.body = body ], "status_touch") ]
    /\ UNCHANGED << sessions, heap, senders, db, now, env, reaper, torn, outside >>

\* live.py:128-132: store.touch, then the response
session_status_touch(t) ==
    /\ th[t].pc = "status_touch"
    /\ sessions' = touched(sessions, th[t].sid, th[t].ref)
    /\ heap' = touch(heap, sessions, th[t].sid, now)
    /\ th' = [ th EXCEPT ![t].pc = "done", ![t].resp.status = 200,
                         ![t].resp.sequence = heap[th[t].ref].sequence ]
    /\ UNCHANGED << senders, db, now, served, env, reaper, torn, outside >>

\* DELETE /live, live.py:138-144
remove_session(t) ==
    /\ Accept(t, "remove")
    /\ \E body \in BearerBodies(env) :
         th' = [ th EXCEPT ![t] =
                   Lookup([ Idle EXCEPT !.op = "remove", !.body = body ], "remove_end") ]
    /\ UNCHANGED << sessions, heap, senders, db, now, env, reaper, torn, outside >>

\* a teardown that lets the exception of end() escape: Flask answers 500
end_propagating(me, raises) ==
    IF raises THEN [ me EXCEPT !.pc = "done", !.resp.status = 500 ]
    ELSE [ me EXCEPT !.pc = "remove_pop" ]

\* live.py:146-149: try: session["sender"].end() / except Exception: pass
end_best_effort(me, raises) == [ me EXCEPT !.pc = "remove_pop" ]

\* live.py:146-149: session["sender"].end(), failures swallowed
remove_session_end(t) ==
    /\ th[t].pc = "remove_end"
    /\ \E raises \in BOOLEAN :
         /\ senders' = [ senders EXCEPT
                           ![heap[th[t].ref].sender] = end(@, raises, "remove") ]
         /\ th' = [ th EXCEPT ![t] = end_best_effort(@, raises) ]
    /\ UNCHANGED << sessions, heap, db, now, served, env, reaper, torn, outside >>

\* a remove that pops nothing
remove_nothing(ss, sid) == ss

\* store.py remove: pop(session_id, None)
remove(ss, sid) == [ ss EXCEPT ![sid] = NoObj ]

\* live.py:151-152: store.remove, then 200
remove_session_pop(t) ==
    /\ th[t].pc = "remove_pop"
    /\ sessions' = remove(sessions, th[t].sid)
    /\ torn' = torn \cup { th[t].sid }
    /\ th' = [ th EXCEPT ![t].pc = "done", ![t].resp.status = 200,
                         ![t].resp.removed = TRUE,
                         ![t].resp.sessionId = th[t].sid ]
    /\ UNCHANGED << heap, senders, db, now, served, env, reaper, outside >>

\* POST /sync, sync.py:16-21
sync_session(t) ==
    /\ Accept(t, "sync")
    /\ \E body \in BearerBodies(env) :
         th' = [ th EXCEPT ![t] =
                   Lookup([ Idle EXCEPT !.op = "sync", !.body = body ], "sync_heartbeat") ]
    /\ UNCHANGED << sessions, heap, senders, db, now, env, reaper, torn, outside >>

\* sync.py:23-30: sender.heartbeat() and the round trip measured around it;
\* a sender that is not started, or a transport failure, ends in 502
sync_session_heartbeat(t) ==
    /\ th[t].pc = "sync_heartbeat"
    /\ \E io \in HeartbeatOutcomes(env) :
         LET id == heap[th[t].ref].sender
             hb == heartbeat(senders[id], io)
         IN  /\ senders' = [ senders EXCEPT ![id] = hb.sender ]
             /\ th' = [ th EXCEPT ![t] =
                   IF hb.raised # ""
                   THEN [ th[t] EXCEPT !.pc = "done", !.resp.status = 502 ]
                   ELSE [ th[t] EXCEPT !.pc = "sync_store", !.result = hb.result,
                                       !.elapsed = elapsed_us(io),
                                       !.rtt = rtt_ms(elapsed_us(io)),
                                       !.tmp = sync_offset_of(rtt_ms(elapsed_us(io))) ] ]
    /\ UNCHANGED << sessions, heap, db, now, served, env, reaper, torn, outside >>

\* sync.py:32-40: session["sync_offset"] = sync_offset, store.touch, 200
sync_session_store(t) ==
    /\ th[t].pc = "sync_store"
    /\ sessions' = touched(sessions, th[t].sid, th[t].ref)
    /\ heap' = touch([ heap EXCEPT ![th[t].ref].sync_offset = th[t].tmp ],
                     sessions, th[t].sid, now)
    /\ th' = [ th EXCEPT ![t].pc = "done", ![t].result = NoResult, ![t].rtt = 0,
                         ![t].elapsed = 0,
                         ![t].resp.status = 200,
                         ![t].resp.syncOffset = th[t].tmp ]
    /\ UNCHANGED << senders, db, now, served, env, reaper, torn, outside >>

(***************************************************************************)
(* POST /captions: send_captions.                                          *)
(***************************************************************************)
\* captions.py:19-28: the captions field, then the lookup
send_captions(t) ==
    /\ Accept(t, "captions")
    /\ \E body \in CaptionBodies(env) :
         LET me == [ Idle EXCEPT !.op = "captions", !.body = body ]
         IN  th' = [ th EXCEPT ![t] =
               IF ~require_auth(body).ok
               THEN [ me EXCEPT !.pc = "done", !.resp.status = 401 ]
               ELSE IF body.captions = NotAList \/ Len(body.captions) = 0
               THEN [ me EXCEPT !.pc = "done", !.resp.status = 400 ]
               ELSE Lookup([ me EXCEPT !.n = Len(body.captions) ], "captions_send") ]
    /\ UNCHANGED << sessions, heap, senders, db, now, env, reaper, torn, outside >>

\* captions.py:33-42: an entry that is no object has no .get (AttributeError);
\* a time that is no number cannot be added (TypeError).  Both are raised
\* outside the try block.
resolve_raises(captions) ==
    \E i \in 1..Len(captions) : captions[i] \in { "nondict", "badtime" }

\* captions.py:34  caption.get("text", "")
caption_text(caption) == IF caption = "notext" THEN "" ELSE caption

\* captions.py:35  caption.get("timestamp"): an absolute time the client gave
caption_timestamp(caption) ==
    IF caption \in { "timestamp", "both" }
    THEN [ kind |-> "given", ms |-> 5000 ] ELSE NoTimestamp

\* captions.py:36  caption.get("time"): ms since the session started
caption_time(caption) == IF caption \in { "time", "both" } THEN 250 ELSE Null

\* the resolution of one caption with the sync offset left out
resolve_without_offset(session, caption) ==
    LET ts       == caption_timestamp(caption)
        rel_time == caption_time(caption)
    IN  [ text      |-> caption_text(caption),
          timestamp |-> IF rel_time # Null /\ ts = NoTimestamp
                        THEN [ kind |-> "datetime",
                               ms   |-> session.started_at * 1000 + rel_time ]
                        ELSE ts ]

\* captions.py:33-42: the text and the timestamp of one caption; a relative
\* time without a timestamp becomes the datetime at
\* started_at * 1000 + time + sync_offset epoch ms
resolve(session, caption) ==
    LET ts       == caption_timestamp(caption)
        rel_time == caption_time(caption)
    IN  [ text      |-> caption_text(caption),
          timestamp |-> IF rel_time # Null /\ ts = NoTimestamp
                        THEN [ kind |-> "datetime",
                               ms   |-> session.started_at * 1000 + rel_time
                                        + session.sync_offset ]
                        ELSE ts ]

\* the sender method called whatever the number of captions
sender_method_batch(n) == "send_batch"

\* captions.py:51-54: send for one caption, send_batch otherwise
sender_method(n) == IF n = 1 THEN "send" ELSE "send_batch"

\* sender.py send:171-173 and send_batch:214: what the sender refuses
sender_refuses(s, captions) ==
    \/ ~s.started
    \/ Len(captions) = 1 /\ captions[1] = "notext"

\* captions.py:30-54 up to the upstream POST: resolve the times, check the
\* sender, read sent_sequence = self._sequence (sender.py:239)
send_captions_send(t) ==
    /\ th[t].pc = "captions_send"
    /\ LET me == th[t]
           s  == senders[heap[me.ref].sender]
       IN  /\ s.sequence < MaxSeq
           /\ th' = [ th EXCEPT ![t] =
                 IF resolve_raises(me.body.captions)
                 THEN [ me EXCEPT !.pc = "done", !.resp.status = 500 ]
                 ELSE LET called ==
                            [ me EXCEPT
                                !.call = sender_method(Len(me.body.captions)),
                                !.calls = me.calls + 1,
                                !.args = [ i \in 1..Len(me.body.captions) |->
                                             resolve(heap[me.ref], me.body.captions[i]) ] ]
                      IN  IF sender_refuses(s, me.body.captions)
                          THEN [ called EXCEPT !.pc = "done", !.resp.status = 502,
                                               !.resp.shape = "error" ]
                          ELSE [ called EXCEPT !.pc = "captions_post",
                                               !.sent = s.sequence ] ]
    /\ UNCHANGED << sessions, heap, senders, db, now, served, env, reaper, torn, outside >>

\* sender.py:240-243: the upstream answers (or the transport fails, 502);
\* on 2xx self._sequence is read to be incremented
send_captions_post(t) ==
    /\ th[t].pc = "captions_post"
    /\ \E raises \in BOOLEAN, status \in UpstreamStatuses :
         th' = [ th EXCEPT ![t] =
                   IF raises
                   THEN [ th[t] EXCEPT !.pc = "done", !.resp.status = 502,
                                       !.resp.shape = "error" ]
                   ELSE IF status \in 200..299
                   THEN [ th[t] EXCEPT !.pc = "captions_inc", !.upstream = status,
                                       !.tmp = senders[heap[th[t].ref].sender].sequence ]
                   ELSE [ th[t] EXCEPT !.pc = "captions_seq", !.upstream = status ] ]
    /\ UNCHANGED << sessions, heap, senders, db, now, served, env, reaper, torn, outside >>

\* sender.py:243: self._sequence += 1, the store of the incremented value
send_captions_inc(t) ==
    /\ th[t].pc = "captions_inc"
    /\ senders' = [ senders EXCEPT ![heap[th[t].ref].sender].sequence = th[t].tmp + 1 ]
    /\ th' = [ th EXCEPT ![t].pc = "captions_seq" ]
    /\ UNCHANGED << sessions, heap, db, now, served, env, reaper, torn, outside >>

\* captions.py:57: sender.get_sequence()
send_captions_seq(t) ==
    /\ th[t].pc = "captions_seq"
    /\ th' = [ th EXCEPT ![t].pc = "captions_store",
                         ![t].tmp = senders[heap[th[t].ref].sender].sequence ]
    /\ UNCHANGED << sessions, heap, senders, db, now, served, env, reaper, torn, outside >>

\* captions.py:57-80: session["sequence"] = ..., store.touch, the response
send_captions_store(t) ==
    /\ th[t].pc = "captions_store"
    /\ sessions' = touched(sessions, th[t].sid, th[t].ref)
    /\ heap' = touch([ heap EXCEPT ![th[t].ref].sequence = th[t].tmp ],
                     sessions, th[t].sid, now)
    /\ th' = [ th EXCEPT ![t].pc = "done",
                         ![t].resp.status = IF th[t].upstream \in 200..299
                                            THEN 200 ELSE th[t].upstream,
                         ![t].resp.sequence = th[t].sent,
                         ![t].resp.shape =
                             IF th[t].upstream \notin 200..299 THEN "error"
                             ELSE IF Len(th[t].args) = 1 THEN "single" ELSE "batch",
                         ![t].resp.count =
                             IF th[t].upstream \in 200..299 /\ Len(th[t].args) # 1
                             THEN Len(th[t].args) ELSE 0 ]
    /\ UNCHANGED << senders, db, now, served, env, reaper, torn, outside >>

(***************************************************************************)
(* The /keys routes, behind the admin gate.  A handler runs as one step.   *)
(***************************************************************************)
\* a gate that looks at the header before it looks at the secret
require_admin_header_first(header) ==
    IF header = ""
    THEN [ ok |-> FALSE, status |-> 401 ]
    ELSE IF admin_key \in { None, "" }
    THEN [ ok |-> FALSE, status |-> 503 ]
    ELSE IF admin_key # header
    THEN [ ok |-> FALSE, status |-> 403 ]
    ELSE [ ok |-> TRUE, status |-> 0 ]

\* middleware/admin.py require_admin; `header` is
\* request.headers.get("X-Admin-Key", "")
require_admin(header) ==
    IF admin_key \in { None, "" }
    THEN [ ok |-> FALSE, status |-> 503 ]
    ELSE IF header = ""
    THEN [ ok |-> FALSE, status |-> 401 ]
    ELSE IF admin_key # header
    THEN [ ok |-> FALSE, status |-> 403 ]
    ELSE [ ok |-> TRUE, status |-> 0 ]

\* db.py get_key: the row, or the absent row for None
get_key(conn, key) == IF key \in DOMAIN conn THEN conn[key] ELSE KeyRow("kx")

\* db.py create_key: INSERT a row, active by default
create_key(conn, owner, key, expires_at, t) ==
    [ conn EXCEPT ![key] = [ present |-> TRUE, active |-> 1,
                             expires_at |-> expires_at, owner |-> owner,
                             created_at |-> t ] ]

\* cursor.rowcount of a statement WHERE key = ?: the rows with that key
rowcount(conn, key) == IF get_key(conn, key).present THEN 1 ELSE 0

\* a revocation that removes the row
revoke_key_deleting(conn, key) ==
    IF key \in DOMAIN conn THEN [ conn EXCEPT ![key] = KeyRow("kx") ] ELSE conn

\* db.py revoke_key: UPDATE ... SET active = 0
revoke_key(conn, key) ==
    IF get_key(conn, key).present THEN [ conn EXCEPT ![key].active = 0 ] ELSE conn

\* db.py delete_key: DELETE the row
delete_key(conn, key) ==
    IF key \in DOMAIN conn THEN [ conn EXCEPT ![key] = KeyRow("kx") ] ELSE conn

\* an update that writes both columns whatever was given
update_key_overwriting(conn, key, owner, expires) ==
    IF ~get_key(conn, key).present
    THEN conn
    ELSE [ conn EXCEPT ![key].owner = owner,
                       ![key].expires_at = IF expires.given THEN expires.at ELSE Null ]

\* db.py:152-163  the SET clauses of update_key: none when owner is None
\* and expires_at is the sentinel
parts(owner, expires) ==
    ( IF owner # None THEN { "owner = ?" } ELSE { } )
        \cup ( IF expires.given THEN { "expires_at = ?" } ELSE { } )

\* db.py:162-171  what update_key returns: False without a SET clause,
\* else whether the UPDATE matched a row
update_key_returns(conn, key, owner, expires) ==
    IF parts(owner, expires) = { } THEN FALSE ELSE rowcount(conn, key) > 0

\* db.py update_key: owner when it is not None, expires_at when it is given
update_key(conn, key, owner, expires) ==
    IF ~get_key(conn, key).present
    THEN conn
    ELSE [ conn EXCEPT ![key].owner = IF owner # None THEN owner ELSE @,
                       ![key].expires_at = IF expires.given THEN expires.at ELSE @ ]

\* a request on /keys is accepted and answered: r is what the handler
\* does with the body once the gate has let it pass
Keys(t, route, body, r) ==
    /\ Accept(t, route)
    /\ LET me   == [ Idle EXCEPT !.op = route, !.body = body, !.pc = "done" ]
           gate == require_admin(body.admin)
       IN  IF ~gate.ok
           THEN /\ th' = [ th EXCEPT ![t] = [ me EXCEPT !.resp.status = gate.status ] ]
                /\ db' = db
           ELSE /\ th' = [ th EXCEPT ![t] =
                             [ me EXCEPT !.resp.status = r.status, !.resp.row = r.row ] ]
                /\ db' = r.db
    /\ UNCHANGED << sessions, heap, senders, now, env, reaper, torn, outside >>

\* keys.py:28-34  GET /keys
list_keys_handler(body) ==
    [ status |-> 200, row |-> KeyRow("kx"), db |-> db ]

list_keys(t) ==
    \E body \in WithOrigins(env, AdminBodies("list_keys")) : Keys(t, "list_keys", body, list_keys_handler(body))

\* keys.py:37-54  POST /keys; uuid4 gives a key that has no row; an INSERT
\* of a key that has a row violates UNIQUE, and the IntegrityError escapes
create_api_key_handler(body) ==
    LET key == IF body.key \in { None, "" } THEN "kx" ELSE body.key
        new == create_key(db, body.owner, key, body.expires.at, now)
    IN  IF body.owner \in { None, "" }
        THEN [ status |-> 400, row |-> KeyRow("kx"), db |-> db ]
        ELSE IF db[key].present
        THEN [ status |-> 500, row |-> KeyRow("kx"), db |-> db ]
        ELSE [ status |-> 201, row |-> get_key(new, key), db |-> new ]

create_api_key(t) ==
    \E body \in AdminBodies("create_api_key") : Keys(t, "create_api_key", body, create_api_key_handler(body))

\* keys.py:57-65  GET /keys/<key>
get_api_key_handler(body) ==
    IF ~get_key(db, body.key).present
    THEN [ status |-> 404, row |-> KeyRow("kx"), db |-> db ]
    ELSE [ status |-> 200, row |-> get_key(db, body.key), db |-> db ]

get_api_key(t) ==
    \E body \in AdminBodies("get_api_key") : Keys(t, "get_api_key", body, get_api_key_handler(body))

\* keys.py:68-89  PATCH /keys/<key>
update_api_key_handler(body) ==
    LET new == update_key(db, body.key, body.owner, body.expires)
    IN  IF ~get_key(db, body.key).present
        THEN [ status |-> 404, row |-> KeyRow("kx"), db |-> db ]
        ELSE [ status |-> 200, row |-> get_key(new, body.key), db |-> new ]

update_api_key(t) ==
    \E body \in AdminBodies("update_api_key") : Keys(t, "update_api_key", body, update_api_key_handler(body))

\* keys.py:92-106  DELETE /keys/<key>, ?permanent=true deletes the row
delete_api_key_handler(body) ==
    IF ~get_key(db, body.key).present
    THEN [ status |-> 404, row |-> KeyRow("kx"), db |-> db ]
    ELSE [ status |-> 200, row |-> KeyRow("kx"),
           db |-> IF body.permanent THEN delete_key(db, body.key)
                                    ELSE revoke_key(db, body.key) ]

delete_api_key(t) ==
    \E body \in AdminBodies("delete_api_key") : Keys(t, "delete_api_key", body, delete_api_key_handler(body))

(***************************************************************************)
(* The CORS middleware: a before_request hook that answers OPTIONS, and an *)
(* after_request hook that runs on every response.                         *)
(***************************************************************************)
\* a lookup that finds every session, whatever its domain
get_by_domain_any(ss, hp, domain) ==
    { sid \in DOMAIN ss : ss[sid] # NoObj }

\* store.py:113-116  the sessions registered for a domain
get_by_domain(ss, hp, domain) ==
    { sid \in DOMAIN ss : ss[sid] # NoObj /\ hp[ss[sid]].domain = domain }

\* cors.py:81-82
is_permissive_route(method, path) ==
    \/ (method = "POST" /\ path = "/live")
    \/ (method = "GET" /\ path = "/health")

\* the paths requests are made to; app.py:107-110 mounts the blueprints at
\* /live, /captions, /sync and /keys and each handler is declared at "/" of
\* its blueprint, so that a handler runs at "/live/", and "/live" is
\* answered by the router with a redirect
Paths == { "/live/", "/live", "/health", "/keys", "/keys/", "/keys/k1", "/captions/", "/nope" }

\* path.startswith("/keys")
startswith_keys(path) == path \in { "/keys", "/keys/", "/keys/k1" }

\* the method and the path of the request a thread serves
request_line(me) ==
    CASE me.op = "register"  -> [ method |-> "POST",   path |-> "/live/" ]
      [] me.op = "status"    -> [ method |-> "GET",    path |-> "/live/" ]
      [] me.op = "remove"    -> [ method |-> "DELETE", path |-> "/live/" ]
      [] me.op = "list_keys" -> [ method |-> "GET",    path |-> "/keys/" ]
      [] me.op = "health"    -> [ method |-> "GET",    path |-> "/health" ]
      [] OTHER               -> [ method |-> me.body.method, path |-> me.body.path ]

\* cors.py:24-50  the headers of the 204 that answers an OPTIONS request
handle_preflight(method, path, origin, ss, hp) ==
    IF startswith_keys(path) THEN NoCors
    ELSE IF origin # ""
    THEN [ allow_methods     |-> "GET, POST, DELETE, PATCH, OPTIONS",
           allow_headers     |-> "Content-Type, Authorization, X-Admin-Key",
           allow_credentials |-> "true",
           allow_origin      |-> IF \/ is_permissive_route(method, path)
                                    \/ get_by_domain(ss, hp, origin) # {}
                                 THEN origin ELSE "" ]
    ELSE NoCors

\* an after_request hook that does not look at the path
add_cors_headers_on_keys(headers, method, path, origin, ss, hp) ==
    IF origin = "" THEN headers
    ELSE [ allow_origin      |-> origin,
           allow_methods     |-> "GET, POST, DELETE, PATCH, OPTIONS",
           allow_headers     |-> "Content-Type, Authorization, X-Admin-Key",
           allow_credentials |-> "true" ]

\* cors.py:52-78  the headers of a response after the hook
add_cors_headers(headers, method, path, origin, ss, hp) ==
    IF startswith_keys(path) THEN headers
    ELSE IF origin = "" THEN headers
    ELSE IF is_permissive_route(method, path)
    THEN [ allow_origin      |-> origin,
           allow_methods     |-> "GET, POST, DELETE, PATCH, OPTIONS",
           allow_headers     |-> "Content-Type, Authorization, X-Admin-Key",
           allow_credentials |-> "true" ]
    ELSE IF get_by_domain(ss, hp, origin) # {}
    THEN [ allow_origin      |-> origin,
           allow_methods     |-> "GET, POST, DELETE, PATCH, OPTIONS",
           allow_headers     |-> "Content-Type, Authorization",
           allow_credentials |-> "true" ]
    ELSE headers

\* app.py GET /health: 200 and the number of sessions of the store
health(t) ==
    /\ Accept(t, "health")
    /\ \E o \in Origins :
         th' = [ th EXCEPT ![t] =
                   [ Idle EXCEPT !.op = "health", !.body.origin = o, !.pc = "done",
                                 !.resp.status = 200,
                                 !.resp.activeSessions =
                                     Cardinality({ sid \in DOMAIN sessions :
                                                     sessions[sid] # NoObj }) ] ]
    /\ UNCHANGED << sessions, heap, senders, db, now, env, reaper, torn, outside >>

\* cors.py:24-50  an OPTIONS request is answered 204 by the before_request
\* hook, and no handler runs
preflight(t) ==
    /\ Accept(t, "preflight")
    /\ \E o \in Origins, path \in Paths :
         th' = [ th EXCEPT ![t] =
                   [ Idle EXCEPT !.op = "preflight", !.pc = "done",
                                 !.body.origin = o, !.body.method = "OPTIONS",
                                 !.body.path = path,
                                 !.resp.status = 204,
                                 !.resp.cors =
                                     handle_preflight("OPTIONS", path, o, sessions, heap) ] ]
    /\ UNCHANGED << sessions, heap, senders, db, now, env, reaper, torn, outside >>

\* a request the router answers itself: a path without its trailing slash
\* is redirected (308) to the handler's path, an unknown path is 404
unrouted(t) ==
    /\ Accept(t, "unrouted")
    /\ \E o \in Origins,
          r \in { [ method |-> "POST", path |-> "/live", status |-> 308 ],
                  [ method |-> "GET",  path |-> "/keys", status |-> 308 ],
                  [ method |-> "GET",  path |-> "/nope", status |-> 404 ] } :
         th' = [ th EXCEPT ![t] =
                   [ Idle EXCEPT !.op = "unrouted", !.pc = "done",
                                 !.body.origin = o, !.body.method = r.method,
                                 !.body.path = r.path, !.resp.status = r.status ] ]
    /\ UNCHANGED << sessions, heap, senders, db, now, env, reaper, torn, outside >>

\* cors.py:52-78  the after_request hook runs on the response of every
\* request, whatever answered it
after_request(t) ==
    /\ env = "cors"
    /\ th[t].pc = "done"
    /\ LET line == request_line(th[t])
       IN  th' = [ th EXCEPT ![t].pc = "sent",
                             ![t].resp.cors =
                                 add_cors_headers(@, line.method, line.path,
                                                  th[t].body.origin, sessions, heap) ]
    /\ UNCHANGED << sessions, heap, senders, db, now, served, env, reaper, torn, outside >>

(***************************************************************************)
(* The reaper.                                                             *)
(***************************************************************************)
\* a sweep that stops at the first end() that raises: the sessions whose
\* sender raises stay in the store
sweep_stopping(ss, hp, snd, t, raising) ==
    LET gone == expired(ss, hp, t) \ raising
    IN  [ sessions |-> [ sid \in DOMAIN ss |-> IF sid \in gone THEN NoObj ELSE ss[sid] ],
          senders  |-> [ o \in DOMAIN snd |->
                           IF \E sid \in expired(ss, hp, t) : hp[ss[sid]].sender = o
                           THEN end(snd[o],
                                    \E sid \in raising : hp[ss[sid]].sender = o,
                                    "sweep")
                           ELSE snd[o] ],
          reaper   |-> "running" ]

\* store.py _sweep: under the lock, pop every expired session and end its
\* sender, swallowing what end() raises.  `raising` are the ids whose
\* sender's end() raises.
sweep(ss, hp, snd, t, raising) ==
    LET gone == expired(ss, hp, t)
    IN  [ sessions |-> [ sid \in DOMAIN ss |-> IF sid \in gone THEN NoObj ELSE ss[sid] ],
          senders  |-> [ o \in DOMAIN snd |->
                           IF \E sid \in gone : hp[ss[sid]].sender = o
                           THEN end(snd[o],
                                    \E sid \in gone \cap raising : hp[ss[sid]].sender = o,
                                    "sweep")
                           ELSE snd[o] ],
          reaper   |-> "running" ]

\* store.py _cleanup_loop: one pass of the reaper
Sweep ==
    /\ reaper = "running"
    /\ \E raising \in SUBSET expired(sessions, heap, now) :
         LET r == sweep(sessions, heap, senders, now, raising)
         IN  /\ sessions' = r.sessions
             /\ senders' = r.senders
             /\ reaper' = r.reaper
    /\ UNCHANGED << heap, db, now, served, env, th, torn, outside >>

\* time passes
Tick ==
    /\ now < Horizon(env)
    /\ now' = now + 1
    /\ UNCHANGED << sessions, heap, senders, db, served, env, reaper, th, torn, outside >>

\* POST /live, one step of thread t
Register(t) ==
    \/ register_session(t) \/ register_has(t) \/ register_get(t)
    \/ register_existing(t) \/ register_new(t) \/ register_create(t)

\* GET /live
Status(t) == session_status(t) \/ session_status_touch(t)

\* DELETE /live
Remove(t) == remove_session(t) \/ remove_session_end(t) \/ remove_session_pop(t)

\* POST /sync
Sync(t) == sync_session(t) \/ sync_session_heartbeat(t) \/ sync_session_store(t)

\* POST /captions
Captions(t) ==
    \/ send_captions(t) \/ send_captions_send(t) \/ send_captions_post(t)
    \/ send_captions_inc(t) \/ send_captions_seq(t) \/ send_captions_store(t)

\* The relay: two request threads serving all five routes for one triple,
\* and the reaper.
Next ==
    \/ \E t \in Threads :
         Register(t) \/ Status(t) \/ Remove(t) \/ Sync(t) \/ Captions(t)
    \/ Sweep
    \/ Tick

Init == InitIn("relay")

Spec == Init /\ [][Next]_vars

\* Registration and removal with every kind of API key and request body.
NextKeys ==
    \/ \E t \in Threads : Register(t) \/ Remove(t)
    \/ Sweep
    \/ Tick

InitKeys == InitIn("keys")

SpecKeys == InitKeys /\ [][NextKeys]_vars

\* Registration and captions with every shape of captions body.
NextShapes ==
    \/ \E t \in Threads : Register(t) \/ Captions(t)
    \/ Sweep
    \/ Tick

InitShapes == InitIn("shapes")

SpecShapes == InitShapes /\ [][NextShapes]_vars

\* The /keys routes, and registrations with the keys they manage.
NextAdmin ==
    \/ \E t \in Threads :
         \/ list_keys(t) \/ create_api_key(t) \/ get_api_key(t)
         \/ update_api_key(t) \/ delete_api_key(t)
         \/ Register(t)
    \/ Sweep
    \/ Tick

InitAdmin == InitIn("admin")

SpecAdmin == InitAdmin /\ [][NextAdmin]_vars

\* Every route, with every kind of Authorization header.
NextGate ==
    \/ \E t \in Threads :
         Register(t) \/ Status(t) \/ Remove(t) \/ Sync(t) \/ Captions(t)
    \/ Sweep
    \/ Tick

InitGate == InitIn("gate")

SpecGate == InitGate /\ [][NextGate]_vars

\* The relay seen from a browser: one thread serving the session routes,
\* one /keys route, /health, preflights and the requests the router answers,
\* each with and without an Origin header; the after_request hook; the reaper.
NextCors ==
    \/ \E t \in Threads :
         \/ Register(t) \/ Status(t) \/ Remove(t) \/ list_keys(t)
         \/ health(t) \/ preflight(t) \/ unrouted(t) \/ after_request(t)
    \/ Sweep \/ Tick

InitCors == InitIn("cors")

SpecCors == InitCors /\ [][NextCors]_vars

\* Sessions whose API key is revoked or deleted: one thread serves the five
\* session routes and DELETE /keys/<key>, soft and permanent.
NextRevoked ==
    \/ \E t \in Threads :
         \/ Register(t) \/ Status(t) \/ Remove(t) \/ Sync(t) \/ Captions(t)
         \/ delete_api_key(t)
    \/ Sweep
    \/ Tick

InitRevoked == InitIn("revoked")

SpecRevoked == InitRevoked /\ [][NextRevoked]_vars

\* Sessions that idle: one thread registers two triples and reads their
\* status, the clock runs one tick past an idle timeout of one tick, and the
\* reaper sweeps at any time.
NextIdle ==
    \/ \E t \in Threads : Register(t) \/ Status(t)
    \/ Sweep
    \/ Tick

InitIdle == InitIn("idle")

SpecIdle == InitIdle /\ [][NextIdle]_vars

(***************************************************************************)
(* Stopping the reaper.                                                    *)
(***************************************************************************)
\* store.py:150-152  _stop_event.wait(interval) times out with the event
\* clear and returns False: the loop goes on to a sweep
reaper_wake ==
    /\ env = "stop"
    /\ reaper = "running"
    /\ ~cleanup.stop_event
    /\ reaper' = "sweeping"
    /\ UNCHANGED << sessions, heap, senders, db, now, served, env, th, torn, outside >>

\* store.py:154-167  the sweep, and back to the wait
reaper_sweep ==
    /\ reaper = "sweeping"
    /\ \E raising \in SUBSET expired(sessions, heap, now) :
         LET r == sweep(sessions, heap, senders, now, raising)
         IN  /\ sessions' = r.sessions
             /\ senders' = r.senders
             /\ reaper' = r.reaper
    /\ UNCHANGED << heap, db, now, served, env, th, torn, outside >>

\* store.py:150-152  wait() returns True once the event is set: the loop and
\* the thread end
reaper_exit ==
    /\ env = "stop"
    /\ reaper = "running"
    /\ cleanup.stop_event
    /\ reaper' = "exited"
    /\ UNCHANGED << sessions, heap, senders, db, now, served, env, th, torn,
                    admin_key, client, lib, cleanup, mcp >>

\* store.py:169-173  stop_cleanup: set the event, then join(timeout=5)
stop_cleanup ==
    /\ env = "stop"
    /\ cleanup.caller = "none"
    /\ cleanup' = [ stop_event |-> TRUE, caller |-> "joining" ]
    /\ UNCHANGED << sessions, heap, senders, db, now, served, env, reaper, th, torn,
                    admin_key, client, lib, mcp >>

\* store.py:173  join returns because the thread has ended
join_returns ==
    /\ cleanup.caller = "joining"
    /\ reaper = "exited"
    /\ cleanup' = [ cleanup EXCEPT !.caller = "returned" ]
    /\ UNCHANGED << sessions, heap, senders, db, now, served, env, reaper, th, torn,
                    admin_key, client, lib, mcp >>

\* store.py:173  join(timeout=5) returns because five seconds have passed
\* while the thread is in a sweep
join_times_out ==
    /\ cleanup.caller = "joining"
    /\ reaper = "sweeping"
    /\ cleanup' = [ cleanup EXCEPT !.caller = "returned" ]
    /\ UNCHANGED << sessions, heap, senders, db, now, served, env, reaper, th, torn,
                    admin_key, client, lib, mcp >>

\* A relay that is shut down: one thread registering sessions, the reaper
\* with the start and the end of a sweep apart, and stop_cleanup.
NextStop ==
    \/ \E t \in Threads : Register(t)
    \/ Tick
    \/ reaper_wake \/ reaper_sweep \/ reaper_exit
    \/ stop_cleanup \/ join_returns \/ join_times_out

InitStop == InitIn("stop")

SpecStop == InitStop /\ [][NextStop]_vars

(***************************************************************************)
(* The library functions called on their own.                              *)
(***************************************************************************)
\* the secrets a token is signed and verified with
Secrets == { JWT_SECRET, "other-secret" }

\* claims dicts: session claims, a dict of one claim, and session claims
\* with an exp claim at a time of the clock
ClaimsDicts ==
    { Payload(a, "s1", "d1") : a \in { "k1", "ke" } }
    \cup { [ sub |-> "alice" ] }
    \cup { Expiring(Payload("k1", "s1", "d1"), x) : x \in 0..MaxTime }

\* _jwt.py: decode(encode(claims, secret), verify)
encode_decode ==
    /\ env = "lib"
    /\ \E claims \in ClaimsDicts, secret \in Secrets, verify \in Secrets :
         lib' = [ NoCall EXCEPT !.fn = "decode", !.at = now, !.claims = claims,
                                !.secret = secret, !.verify = verify,
                                !.decoded = jwt_decode(jwt_encode(claims, secret), verify) ]
    /\ UNCHANGED << sessions, heap, senders, db, now, served, env, reaper, th, torn,
                    admin_key, client, cleanup, mcp >>

\* db.py: validate_api_key(conn, key)
validate ==
    /\ env = "lib"
    /\ \E key \in ApiKeys :
         lib' = [ NoCall EXCEPT !.fn = "validate_api_key", !.at = now, !.key = key,
                                !.row = db[key],
                                !.validated = validate_api_key(db, key, now) ]
    /\ UNCHANGED << sessions, heap, senders, db, now, served, env, reaper, th, torn,
                    admin_key, client, cleanup, mcp >>

\* the tokens decode is called with: a session token, the forged ones, the
\* expiring ones, one of four segments, and one whose payload is no JSON
\* and whose signature is that of another payload
DecodeTokens ==
    LET good == jwt_encode(Payload("k1", "s1", "d1"), JWT_SECRET)
    IN  { good, << good[1], good[2], good[3], good[3] >>,
          << good[1], b64url_encode(NotJson), good[3] >> }
        \cup ForgedTokens \cup ExpiringTokens

\* _jwt.py:61-102  decode(token, secret)
decode ==
    /\ env = "lib"
    /\ \E token \in DecodeTokens, verify \in Secrets :
         lib' = [ NoCall EXCEPT !.fn = "decode_token", !.at = now, !.token = token,
                                !.verify = verify,
                                !.decoded = jwt_decode(token, verify) ]
    /\ UNCHANGED << sessions, heap, senders, db, now, served, env, reaper, th, torn,
                    admin_key, client, cleanup, mcp >>

\* the triples session ids are made of: a stream key and a domain may hold
\* the ":" that joins the fields
Triples ==
    [ apiKey : { "k1", "k2" }, streamKey : { "s1", "s1:https" },
      domain : { "https://d1", "//d1" } ]

\* store.py:14-29  make_session_id of two triples
session_ids ==
    /\ env = "lib"
    /\ \E a \in Triples, b \in Triples :
         lib' = [ NoCall EXCEPT
                    !.fn = "make_session_id", !.triples = << a, b >>,
                    !.ids = << make_session_id(a.apiKey, a.streamKey, a.domain),
                               make_session_id(b.apiKey, b.streamKey, b.domain) >> ]
    /\ UNCHANGED << sessions, heap, senders, db, now, served, env, reaper, th, torn,
                    admin_key, client, cleanup, mcp >>

\* db.py:110-120  revoke_key(conn, key) and what it returns
revoke ==
    /\ env = "lib"
    /\ \E key \in ApiKeys :
         /\ db' = revoke_key(db, key)
         /\ lib' = [ NoCall EXCEPT !.fn = "revoke_key", !.at = now, !.key = key,
                                   !.row = get_key(db, key),
                                   !.returned = (rowcount(db, key) > 0) ]
    /\ UNCHANGED << sessions, heap, senders, now, served, env, reaper, th, torn,
                    admin_key, client, cleanup, mcp >>

\* db.py:123-131  delete_key(conn, key) and what it returns
delete ==
    /\ env = "lib"
    /\ \E key \in ApiKeys :
         /\ db' = delete_key(db, key)
         /\ lib' = [ NoCall EXCEPT !.fn = "delete_key", !.at = now, !.key = key,
                                   !.row = get_key(db, key),
                                   !.returned = (rowcount(db, key) > 0) ]
    /\ UNCHANGED << sessions, heap, senders, now, served, env, reaper, th, torn,
                    admin_key, client, cleanup, mcp >>

\* db.py:137-171  update_key(conn, key, owner, expires_at) and what it
\* returns; owner None and expires_at the sentinel are the omitted arguments
update ==
    /\ env = "lib"
    /\ \E key \in { "k1", "kx" }, owner \in { None, "bob" }, expires \in ExpiresFields :
         /\ db' = update_key(db, key, owner, expires)
         /\ lib' = [ NoCall EXCEPT !.fn = "update_key", !.at = now, !.key = key,
                                   !.owner = owner, !.expires = expires,
                                   !.row = get_key(db, key),
                                   !.returned = update_key_returns(db, key, owner, expires) ]
    /\ UNCHANGED << sessions, heap, senders, now, served, env, reaper, th, torn,
                    admin_key, client, cleanup, mcp >>

NextLib ==
    \/ encode_decode \/ decode \/ validate \/ session_ids \/ revoke \/ delete
    \/ update
    \/ Tick

InitLib == InitIn("lib")

SpecLib == InitLib /\ [][NextLib]_vars

(***************************************************************************)
(* A sender used through the lcyt library, beside the relay.               *)
(***************************************************************************)
\* whether the transport answered the heartbeat of a call
Transport(s, io) ==
    IF ~s.started THEN "none" ELSE IF io.raises THEN "failed" ELSE "answered"

\* YoutubeLiveCaptionSender(stream_key, sequence=...)
client_construct ==
    /\ env = "client"
    /\ ~client.made
    /\ \E sequence \in 0..1 :
         client' = [ NoClient EXCEPT !.made = TRUE,
                                     !.sender = new_sender_unstarted(sequence) ]
    /\ UNCHANGED << sessions, heap, senders, db, now, served, env, reaper, th, torn,
                    admin_key, lib, cleanup, mcp >>

\* sender.py start
client_start ==
    /\ client.made /\ ~client.sender.started
    /\ client' = [ client EXCEPT !.sender.started = TRUE,
                                 !.last = [ NoLast EXCEPT !.fn = "start" ] ]
    /\ UNCHANGED << sessions, heap, senders, db, now, served, env, reaper, th, torn,
                    admin_key, lib, cleanup, mcp >>

\* sender.send(text)
client_send ==
    /\ client.made
    /\ client.sender.sequence < MaxSeq
    /\ \E io \in HeartbeatOutcomes(env) :
         LET r == send(client.sender, "text", io)
         IN  client' = [ client EXCEPT
                           !.sender = r.sender,
                           !.last = [ NoLast EXCEPT !.fn = "send", !.raised = r.raised,
                                                    !.result = r.result,
                                                    !.count = r.count ] ]
    /\ UNCHANGED << sessions, heap, senders, db, now, served, env, reaper, th, torn,
                    admin_key, lib, cleanup, mcp >>

\* sender.send_batch(captions), the list empty, of one or of two captions
client_send_batch ==
    /\ client.made
    /\ client.sender.sequence < MaxSeq
    /\ \E io \in HeartbeatOutcomes(env),
          captions \in { << >>, << "text" >>, << "text", "text" >> } :
         LET r == send_batch(client.sender, captions, io)
         IN  client' = [ client EXCEPT
                           !.sender = r.sender,
                           !.last = [ NoLast EXCEPT
                                        !.fn = "send_batch", !.raised = r.raised,
                                        !.result = r.result, !.count = r.count ] ]
    /\ UNCHANGED << sessions, heap, senders, db, now, served, env, reaper, th, torn,
                    admin_key, lib, cleanup, mcp >>

\* sender.heartbeat()
client_heartbeat ==
    /\ client.made
    /\ \E io \in HeartbeatOutcomes(env) :
         LET r == heartbeat(client.sender, io)
         IN  client' = [ client EXCEPT
                           !.sender = r.sender,
                           !.last = [ NoLast EXCEPT
                                        !.fn = "heartbeat", !.raised = r.raised,
                                        !.result = r.result,
                                        !.transport = Transport(client.sender, io) ] ]
    /\ UNCHANGED << sessions, heap, senders, db, now, served, env, reaper, th, torn,
                    admin_key, lib, cleanup, mcp >>

\* sender.sync(), the wall clock in ms at its first reading
client_sync ==
    /\ client.made
    /\ \E io \in HeartbeatOutcomes(env) :
         LET r == sync(client.sender, io, now * 1000)
         IN  client' = [ client EXCEPT
                           !.sender = r.sender,
                           !.last = [ NoLast EXCEPT
                                        !.fn = "sync", !.raised = r.raised,
                                        !.sync_offset = r.sync_offset,
                                        !.round_trip_time =
                                            IF r.raised = "" THEN io.rtt ELSE 0,
                                        !.result = r.result,
                                        !.transport = Transport(client.sender, io) ] ]
    /\ UNCHANGED << sessions, heap, senders, db, now, served, env, reaper, th, torn,
                    admin_key, lib, cleanup, mcp >>

\* Registration and POST /sync at the relay ("sync"), or a sender of the
\* library used on its own ("client").
NextSync ==
    \/ \E t \in Threads : Register(t) \/ Sync(t)
    \/ Sweep
    \/ Tick
    \/ client_construct
    \/ client_start
    \/ client_send
    \/ client_send_batch
    \/ client_heartbeat
    \/ client_sync

InitSync == InitIn("sync") \/ InitIn("client")

SpecSync == InitSync /\ [][NextSync]_vars

(***************************************************************************)
(* The MCP server: tool calls as coroutines on one event loop.  A step is  *)
(* what a coroutine does between two awaits.                               *)
(***************************************************************************)
\* what the MCP server does not touch
beside == << sessions, heap, senders, db, now, served, env, reaper, th, torn,
             admin_key, client, lib, cleanup >>

\* the tools that name a session and await the sender
AwaitingTools == { "send_caption", "send_batch", "sync_clock" }

\* a task takes a tool call
Takes(k) == env = "mcp" /\ mcp.task[k].pc = "idle"

\* a stop that looks the session up and leaves it in the dicts
stop_peek(m, session_id) ==
    [ found |-> session_id \in m.sessions, sessions |-> m.sessions,
      session_meta |-> m.session_meta ]

\* server.py:201-204  sessions.pop(session_id, None), and after the None
\* test session_meta.pop(session_id, None)
stop_pop(m, session_id) ==
    [ found        |-> session_id \in m.sessions,
      sessions     |-> m.sessions \ { session_id },
      session_meta |-> IF session_id \in m.sessions
                       THEN m.session_meta \ { session_id } ELSE m.session_meta ]

\* server.py:155-157  start: construct the sender, await sender.start
mcp_start(k) ==
    /\ Takes(k)
    /\ mcp.issued + Cardinality({ j \in Tasks : mcp.task[j].pc = "starting" }) < MaxObjs
    /\ mcp' = [ mcp EXCEPT !.task[k] = [ NoTask EXCEPT !.pc = "starting", !.tool = "start" ] ]
    /\ UNCHANGED beside

\* server.py:158-163  start, after the await: a fresh id, both dicts
mcp_started(k) ==
    /\ mcp.task[k].pc = "starting"
    /\ LET sid == mcp.issued + 1
       IN  mcp' = [ mcp EXCEPT !.issued = sid,
                               !.sessions = @ \cup { sid },
                               !.session_meta = @ \cup { sid },
                               !.task[k].pc = "idle",
                               !.task[k].session_id = sid ]
    /\ UNCHANGED beside

\* server.py:165-188  send_caption, send_batch, sync_clock: _get_session,
\* then await the sender's method
mcp_call(k) ==
    /\ Takes(k)
    /\ \E tool \in AwaitingTools, sid \in 1..MaxObjs :
         LET me == [ NoTask EXCEPT !.tool = tool, !.session_id = sid ]
         IN  mcp' = [ mcp EXCEPT !.task[k] =
                        IF sid \in mcp.sessions
                        THEN [ me EXCEPT !.pc = "calling" ]
                        ELSE [ me EXCEPT !.raised = "ValueError" ] ]
    /\ UNCHANGED beside

\* after the await: the result, or the exception of a sender that was ended
mcp_called(k) ==
    /\ mcp.task[k].pc = "calling"
    /\ mcp' = [ mcp EXCEPT !.task[k].pc = "idle",
                           !.task[k].raised =
                               IF mcp.ends[mcp.task[k].session_id] > 0
                               THEN "ValidationError" ELSE "" ]
    /\ UNCHANGED beside

\* server.py:190-198  get_status: _get_session and no await
mcp_get_status(k) ==
    /\ Takes(k)
    /\ \E sid \in 1..MaxObjs :
         mcp' = [ mcp EXCEPT !.task[k] =
                    [ NoTask EXCEPT !.tool = "get_status", !.session_id = sid,
                                    !.raised = IF sid \in mcp.sessions
                                               THEN "" ELSE "ValueError" ] ]
    /\ UNCHANGED beside

\* server.py:200-205  stop, up to the await
mcp_stop(k) ==
    /\ Takes(k)
    /\ \E sid \in 1..MaxObjs :
         LET me     == [ NoTask EXCEPT !.tool = "stop", !.session_id = sid ]
             popped == stop_pop(mcp, sid)
         IN  mcp' = [ mcp EXCEPT !.sessions = popped.sessions,
                                 !.session_meta = popped.session_meta,
                                 !.task[k] =
                                    IF popped.found
                                    THEN [ me EXCEPT !.pc = "ending" ]
                                    ELSE [ me EXCEPT !.raised = "ValueError" ] ]
    /\ UNCHANGED beside

\* server.py:205-206  sender.end runs in a thread; what it raises escapes
mcp_stopped(k) ==
    /\ mcp.task[k].pc = "ending"
    /\ \E raises \in BOOLEAN :
         mcp' = [ mcp EXCEPT !.ends[mcp.task[k].session_id] = @ + 1,
                             !.task[k].pc = "idle",
                             !.task[k].raised = IF raises THEN "Exception" ELSE "" ]
    /\ UNCHANGED beside

NextMcp ==
    \E k \in Tasks :
        \/ mcp_start(k) \/ mcp_started(k) \/ mcp_call(k) \/ mcp_called(k)
        \/ mcp_get_status(k) \/ mcp_stop(k) \/ mcp_stopped(k)

InitMcp == InitIn("mcp")

SpecMcp == InitMcp /\ [][NextMcp]_vars

(***************************************************************************)
(* Properties.                                                             *)
(***************************************************************************)
Answered(t, route) == th[t].pc = "done" /\ th[t].op = route

\* the session dicts that hold sender o
HeldIn(o) == { h \in DOMAIN heap : heap[h].sender = o }

\* session dict h is the one the store holds under its id
Stored(h) == sessions[heap[h].session_id] = h

\* C1: every sender that was started has end() invoked exactly once: never
\* twice, and never zero times once its session is no longer in the store.
C1_EndExactlyOnce ==
    \A o \in DOMAIN senders :
        /\ senders[o].ends <= 1
        /\ (\E h \in HeldIn(o) : ~Stored(h)) => senders[o].ends = 1

\* C2: the existence check and the create of a registration are atomic with
\* respect to the other store operations: a request that found its id
\* absent and has not yet stored its session still finds it absent, so one
\* sender is constructed and one session inserted per id.
C2_CheckThenCreateAtomic ==
    \A t \in Threads :
        th[t].pc \in { "reg_new", "reg_create" } => sessions[th[t].sid] = NoObj

\* C7: every write to a session's sequence field stores a value greater than
\* or equal to the value it replaces.
C7_SequenceNeverDecreases ==
    [][ \A h \in DOMAIN heap : heap'[h].sequence >= heap[h].sequence ]_vars

\* C8: POST /captions never lets an exception escape: a request that passes
\* the bearer gate is answered 200, 400, 404, the upstream's non-2xx status,
\* or 502.
C8_CaptionsNeverRaise ==
    \A t \in Threads :
        Answered(t, "captions") /\ require_auth(th[t].body).ok =>
            th[t].resp.status \in {200, 400, 404, 502} \cup UpstreamStatuses

\* C9: POST /live never ends in an unhandled exception: it is answered 200,
\* 400 or 401.
C9_RegisterNeverRaises ==
    \A t \in Threads :
        Answered(t, "register") => th[t].resp.status \in {200, 400, 401}

\* thread t takes a step of its handler
Steps(t) == th'[t] # th[t]

\* the token a registration for the triple of `body` signs
TokenOf(body) == jwt_encode(Payload(body.apiKey, body.streamKey, body.domain), JWT_SECRET)

\* C3: a POST /live (with a body that parses) that finds the session of its
\* triple in the store, at the existence check and at the fetch, goes down
\* the idempotent branch: it is answered 200 with the token and session id
\* that the registration which created the session stored and returned, no
\* sender is constructed, and the store keeps its size and its sessions.
C3_SecondRegistrationIdempotent ==
    [][ \A t \in Threads :
          LET me == th[t]   me2 == th'[t]
          IN  /\ ( me.pc = "reg_create" /\ Steps(t) ) =>
                     /\ me2.resp.token = heap'[sessions'[me.sid]].jwt
                     /\ me2.resp.token = TokenOf(me.body)
                     /\ me2.resp.sessionId = heap'[sessions'[me.sid]].session_id
              /\ ( me.pc = "reg_has" /\ Steps(t) /\ sessions[me.sid] # NoObj ) =>
                     me2.pc = "reg_get"
              /\ ( me.pc = "reg_get" /\ Steps(t) /\ sessions[me.sid] # NoObj ) =>
                     me2.pc = "reg_touch" /\ me2.ref = sessions[me.sid]
              /\ ( me.pc = "reg_touch" /\ Steps(t) /\ me.ref # NoObj ) =>
                     /\ me2.pc = "done"
                     /\ me2.resp.status = 200
                     /\ me2.resp.token = heap[me.ref].jwt
                     /\ me2.resp.token = TokenOf(me.body)
                     /\ me2.resp.sessionId = heap[me.ref].session_id
                     /\ me2.made = NoObj
              /\ ( me.pc \in { "reg_has", "reg_get", "reg_touch" } /\ Steps(t) ) =>
                     /\ senders' = senders
                     /\ sessions' = sessions
                     /\ Len(heap') = Len(heap) ]_vars

\* C3 witness: one thread has been answered by the registration that created
\* the session, the other by the idempotent branch, with the same token and
\* session id, one sender constructed and the session still stored.
C3_Witness ==
    \E t, u \in Threads :
        /\ Answered(t, "register") /\ th[t].made # NoObj /\ th[t].resp.status = 200
        /\ Answered(u, "register") /\ th[u].made = NoObj /\ th[u].resp.status = 200
        /\ th[u].ref # NoObj
        /\ th[u].resp.token = th[t].resp.token
        /\ th[u].resp.sessionId = th[t].resp.sessionId
        /\ Len(senders) = 1
        /\ sessions[th[t].sid] = th[u].ref

\* C4: a sweep removes every session whose last activity is older than
\* now - TTL and leaves the others; the sender of each removed session has
\* end() invoked once by the sweep, the other senders none; this holds
\* whichever of the end() calls raise, and the reaper keeps running.
C4_SweepRemovesExpired ==
    [][ ( th' = th /\ served' = served /\ now' = now ) =>
          /\ \A sid \in DOMAIN sessions :
               IF sessions[sid] # NoObj
                  /\ heap[sessions[sid]].last_activity_at < now - SessionTtl
               THEN /\ sessions'[sid] = NoObj
                    /\ senders'[heap[sessions[sid]].sender].ends
                         = senders[heap[sessions[sid]].sender].ends + 1
                    /\ senders'[heap[sessions[sid]].sender].by = "sweep"
               ELSE sessions'[sid] = sessions[sid]
          /\ \A o \in DOMAIN senders :
               ( \A sid \in DOMAIN sessions :
                    sessions[sid] # NoObj /\ heap[sessions[sid]].sender = o
                        => heap[sessions[sid]].last_activity_at >= now - SessionTtl )
                   => senders'[o] = senders[o]
          /\ DOMAIN senders' = DOMAIN senders
          /\ heap' = heap
          /\ reaper' = "running" ]_vars

\* C4 witness: one sweep has removed two sessions, the end() of one sender
\* raised and the end() of the other did not.
C4_Witness ==
    /\ Len(senders) = 2
    /\ senders[1].by = "sweep" /\ senders[2].by = "sweep"
    /\ senders[1].ends = 1 /\ senders[2].ends = 1
    /\ senders[1].raised # senders[2].raised
    /\ \A sid \in DOMAIN sessions : sessions[sid] = NoObj
    /\ reaper = "running"

\* C5: a request with the session's token (GET /live, POST /sync,
\* DELETE /live, POST /captions with a non-empty list) that is looked up
\* after DELETE /live answered 200 for the session, with no registration of
\* the triple stored since, is answered 404.
C5_GoneAfterTeardown ==
    \A t \in Threads :
        ( /\ th[t].op \in { "status", "sync", "remove", "captions" }
          /\ th[t].after
          /\ require_auth(th[t].body).ok
          /\ th[t].body.captions # <<>> )
            => Answered(t, th[t].op) /\ th[t].resp.status = 404

\* C5 witness: after a teardown answered 200, a POST /captions with the same
\* token was answered 404.
C5_Witness ==
    \E t \in Threads :
        /\ Answered(t, "captions") /\ th[t].after /\ th[t].resp.status = 404
        /\ th[t].body.captions = <<"text">>
        /\ th[t].sid \in torn

\* C6: a registration that stores its session when an earlier session of the
\* same id has been removed stores a new session dict under that id, with a
\* sender that no earlier session held, that is started and was never ended,
\* with startedAt the time of the create, and answers 200 with a token signed
\* from the triple that require_auth accepts.
C6_FreshSessionAfterRemoval ==
    [][ \A t \in Threads :
          LET me == th[t]   me2 == th'[t] IN
          ( /\ me.pc = "reg_create" /\ Steps(t)
            /\ \E h \in DOMAIN heap : heap[h].session_id = me.sid /\ ~Stored(h) ) =>
              LET new == sessions'[me.sid] IN
              /\ new \notin DOMAIN heap /\ new \in DOMAIN heap'
              /\ heap'[new].session_id = me.sid
              /\ heap'[new].sender = me.made
              /\ \A h \in DOMAIN heap : heap[h].sender # me.made
              /\ senders'[me.made].started /\ senders'[me.made].ends = 0
              /\ heap'[new].started_at = now
              /\ \A h \in DOMAIN heap : heap[h].started_at <= heap'[new].started_at
              /\ me2.resp.status = 200
              /\ me2.resp.token = heap'[new].jwt
              /\ me2.resp.token = TokenOf(me.body)
              /\ jwt_decode(me2.resp.token, JWT_SECRET).ok
              /\ jwt_decode(me2.resp.token, JWT_SECRET).payload.sessionId = me.sid ]_vars

\* C6 witness: the session was registered, torn down, and registered again
\* at a later time under the same id with a second sender.
C6_Witness ==
    /\ Len(heap) = 2 /\ heap[1].session_id = heap[2].session_id
    /\ sessions[heap[2].session_id] = 2
    /\ heap[1].sender = 1 /\ heap[2].sender = 2
    /\ senders[1].ends = 1 /\ ~senders[1].started /\ senders[1].by = "remove"
    /\ senders[2].started /\ senders[2].ends = 0
    /\ heap[2].started_at > heap[1].started_at

Registers(t) ==
    /\ th[t].pc \in { "idle", "done" } /\ served' # served
    /\ th'[t].op = "register" /\ th'[t].pc # "idle"

Presents(t) ==
    /\ th[t].pc \in { "idle", "done" } /\ served' # served
    /\ th'[t].op \in { "status", "remove", "captions", "sync" } /\ th'[t].pc # "idle"

\* the claims for which `token` is what the relay's secret signs, and that
\* are not expired
VerifiedClaims(token) ==
    { c \in { Payload(a, "s1", "d1") : a \in ApiKeys }
            \cup { Expiring(Payload(a, "s1", "d1"), x) : a \in ApiKeys, x \in 0..MaxTime } :
        /\ token = jwt_encode(c, JWT_SECRET)
        /\ "exp" \in DOMAIN c => c["exp"] >= now }

\* C12: on GET /live, DELETE /live, POST /captions and POST /sync a request
\* with no Authorization header, with a header of another scheme, or with a
\* token that does not verify (wrong segment count, bad signature, unreadable
\* payload, expired) is answered 401 at once and changes no session, sender
\* or store entry; a request that gets further looks up the session id of
\* the claims of its verified token.
C12_BearerGate ==
    [][ \A t \in Threads :
          Presents(t) =>
            LET b == th'[t].body IN
            IF b.bearer /\ VerifiedClaims(b.token) # {}
            THEN /\ ~( th'[t].pc = "done" /\ th'[t].resp.status = 401 )
                 /\ ( th'[t].sid # None =>
                        \E c \in VerifiedClaims(b.token) : th'[t].sid = c["sessionId"] )
            ELSE /\ th'[t].pc = "done"
                 /\ th'[t].resp.status = 401
                 /\ th'[t].sid = None /\ th'[t].ref = NoObj
                 /\ sessions' = sessions
                 /\ heap' = heap
                 /\ senders' = senders ]_vars

\* C12 witness: while the session is in the store, a POST /sync with a
\* token whose exp has passed was answered 401.
C12_Witness ==
    \E t \in Threads :
        /\ Answered(t, "sync") /\ th[t].resp.status = 401
        /\ th[t].body.bearer
        /\ th[t].body.token \in ExpiringTokens
        /\ sessions["k1:s1:d1"] # NoObj

\* the /keys routes
KeysRoutes ==
    { "list_keys", "create_api_key", "get_api_key", "update_api_key", "delete_api_key" }

\* thread t accepts and answers a request on a /keys route in this step
Administers(t) ==
    /\ th[t].pc \in { "idle", "done" } /\ served' # served
    /\ th'[t].op \in KeysRoutes /\ th'[t].pc # "idle"

\* C13: on every /keys route, with ADMIN_KEY unset or empty the answer is
\* 503 whatever the X-Admin-Key header; otherwise with the header absent or
\* empty it is 401; otherwise with a header that differs from ADMIN_KEY it
\* is 403; on these three the api_keys table is unchanged and the response
\* reports no key record; only a header equal to ADMIN_KEY reaches the
\* handler, whose answer is none of the three.
C13_AdminGate ==
    [][ \A t \in Threads :
          Administers(t) =>
            LET header == th'[t].body.admin
                resp   == th'[t].resp
                closed == /\ db' = db
                          /\ resp.row = KeyRow("kx")
                          /\ th'[t].pc = "done"
            IN  IF admin_key \in { None, "" } THEN resp.status = 503 /\ closed
                ELSE IF header = ""         THEN resp.status = 401 /\ closed
                ELSE IF header # admin_key  THEN resp.status = 403 /\ closed
                ELSE resp.status \in { 200, 201, 400, 404, 500 } ]_vars

\* C13 witness: requests were answered 503 (a correct-looking header, no
\* secret configured), 401, 403, and one reached the handler and changed a
\* key record.
C13_Witness ==
    \E t \in Threads :
        /\ Answered(t, "delete_api_key") /\ th[t].body.key = "k1"
        /\ \/ admin_key = None /\ th[t].body.admin = "adm" /\ th[t].resp.status = 503
           \/ admin_key = "adm" /\ th[t].body.admin = "bad" /\ th[t].resp.status = 403
                /\ db["k1"].present
           \/ admin_key = "adm" /\ th[t].body.admin = "" /\ th[t].resp.status = 401
                /\ db["k1"].present
        /\ served = MaxRequests

C15_ValidateOrder ==
    lib.fn = "validate_api_key" =>
        LET row == lib.row
            out == lib.validated
        IN  IF ~row.present      THEN ~out.valid /\ out.reason = "unknown_key"
            ELSE IF row.active = 0 THEN ~out.valid /\ out.reason = "revoked"
            ELSE IF row.expires_at # Null /\ row.expires_at < lib.at
                                 THEN ~out.valid /\ out.reason = "expired"
            ELSE out.valid /\ out.owner = row.owner

\* C15 witness: a key that is inactive and past its expiry was validated
\* and reported revoked.
C15_Witness ==
    /\ lib.fn = "validate_api_key"
    /\ lib.row.present /\ lib.row.active = 0
    /\ lib.row.expires_at # Null /\ lib.row.expires_at < lib.at
    /\ lib.validated.reason = "revoked"

\* thread t resolves the captions of its request and calls the sender in
\* this step
Resolves(t) == th[t].pc = "captions_send" /\ th'[t].pc # "captions_send"

\* every entry is a JSON object whose time, if any, is a number
WellFormed(captions) ==
    \A i \in 1..Len(captions) : captions[i] \notin { "nondict", "badtime" }

\* C16: of a forwarded caption, an entry with a relative time and no
\* timestamp is handed to the sender with the datetime at
\* started_at * 1000 + time + sync_offset epoch ms, the two session values
\* being those of the session dict the lookup fetched; an entry with a
\* timestamp is handed over with that timestamp, its time ignored; an entry
\* with neither is handed over with no timestamp.  Stated for lists whose
\* entries are JSON objects with numeric times.
C16_RelativeTimeResolved ==
    [][ \A t \in Threads :
          ( Resolves(t) /\ WellFormed(th[t].body.captions) ) =>
            LET captions == th[t].body.captions
                session  == heap[th[t].ref]
                args     == th'[t].args
            IN  /\ th'[t].call # "none"
                /\ Len(args) = Len(captions)
                /\ \A i \in 1..Len(captions) :
                     CASE captions[i] = "time" ->
                            /\ args[i].timestamp.kind = "datetime"
                            /\ args[i].timestamp.ms =
                                 session.started_at * 1000 + 250 + session.sync_offset
                       [] captions[i] \in { "timestamp", "both" } ->
                            args[i].timestamp = [ kind |-> "given", ms |-> 5000 ]
                       [] OTHER -> args[i].timestamp = NoTimestamp ]_vars

\* C16 witness: a caption with a relative time was handed to the sender for
\* a session that started at a time other than 0 and has a sync offset other
\* than 0, in a batch with a caption that carries both fields.
C16_Witness ==
    \E t \in Threads :
        /\ th[t].op = "captions" /\ th[t].call = "send_batch"
        /\ th[t].body.captions = << "both", "text", "time" >>
        /\ th[t].ref # NoObj
        /\ heap[th[t].ref].started_at = 1 /\ heap[th[t].ref].sync_offset = 1
        /\ th[t].args[3].timestamp = [ kind |-> "datetime", ms |-> 1251 ]

\* C17: a request with exactly one caption makes exactly one call,
\* sender.send, and a 200 has the single-caption shape; a request with
\* n >= 2 captions makes exactly one call, sender.send_batch with the n
\* captions in request order, and a 200 has the batch shape with count = n;
\* a captions field that is missing, no list or empty is answered 400 with
\* no call and no change of a session or a sender.  Stated for lists whose
\* entries are JSON objects with numeric times.
C17_OneCallPerRequest ==
    [][ \A t \in Threads :
          LET captions == th'[t].body.captions
              n        == Len(captions)
          IN  /\ ( /\ th[t].pc \in { "idle", "done" } /\ served' # served
                   /\ th'[t].op = "captions" /\ require_auth(th'[t].body).ok
                   /\ (captions = NotAList \/ n = 0) )
                   => /\ th'[t].pc = "done" /\ th'[t].resp.status = 400
                      /\ th'[t].calls = 0 /\ th'[t].call = "none"
                      /\ heap' = heap /\ senders' = senders /\ sessions' = sessions
              /\ ( Resolves(t) /\ WellFormed(captions) )
                   => /\ th'[t].calls = 1
                      /\ th'[t].call = IF n = 1 THEN "send" ELSE "send_batch"
                      /\ Len(th'[t].args) = n
                      /\ \A i \in 1..n :
                           th'[t].args[i].text = caption_text(captions[i])
              /\ ( th[t].pc = "captions_store" /\ th'[t].pc = "done"
                   /\ th'[t].resp.status = 200 )
                   => /\ th'[t].calls = 1
                      /\ IF n = 1
                         THEN th'[t].resp.shape = "single"
                         ELSE th'[t].resp.shape = "batch" /\ th'[t].resp.count = n ]_vars

\* C17 witness: a request with three captions was answered 200 after one
\* send_batch call.
C17_Witness ==
    \E t \in Threads :
        /\ Answered(t, "captions") /\ th[t].resp.status = 200
        /\ Len(th[t].body.captions) = 3
        /\ th[t].call = "send_batch" /\ th[t].calls = 1
        /\ th[t].resp.count = 3

\* the client's sender made a call of one of the methods fns in this step
Calls(fns) == client' # client /\ client'.last.fn \in fns

\* C18: a heartbeat never advances the caption sequence, whatever the
\* upstream status: the steps of POST /sync change the sequence of no sender
\* and of no session; the sender a registration constructs, and the session
\* it stores, still have the start sequence of the request after the
\* initial sync; heartbeat() and sync() of the library's sender leave its
\* sequence as it was.
C18_HeartbeatKeepsSequence ==
    [][ /\ \A t \in Threads :
             /\ ( th[t].pc \in { "sync_heartbeat", "sync_store" } /\ th'[t] # th[t] )
                  => /\ \A i \in DOMAIN senders :
                          senders'[i].sequence = senders[i].sequence
                     /\ \A h \in DOMAIN heap : heap'[h].sequence = heap[h].sequence
             /\ ( th[t].pc = "reg_new" /\ th'[t].pc = "reg_create" )
                  => senders'[th'[t].made].sequence = int_of(th[t].body.sequence).val
             /\ ( th[t].pc = "reg_create" /\ th'[t].pc = "done" )
                  => /\ senders' = senders
                     /\ heap'[Len(heap')].sequence = int_of(th[t].body.sequence).val
        /\ Calls({ "heartbeat", "sync" })
             => client'.sender.sequence = client.sender.sequence ]_vars

\* C18 witness: the heartbeat of a POST /sync was answered 400 for a session
\* whose sequence is 1, and the sequence of its sender is 1.
C18_Witness ==
    \E t \in Threads :
        /\ th[t].pc = "sync_store" /\ th[t].result.status_code = 400
        /\ heap[th[t].ref].sequence = 1
        /\ senders[heap[th[t].ref].sender].sequence = 1

\* C19: a sync whose heartbeat returns no result (the transport failed, or
\* the sender refused) is answered 502 by POST /sync and changes the
\* sync_offset of no session; sender.sync() whose heartbeat fails in the
\* transport raises NetworkError and leaves the sender's sync_offset as it
\* was.
C19_FailedSyncKeepsOffset ==
    [][ /\ \A t \in Threads :
             ( /\ th[t].pc = "sync_heartbeat" /\ th'[t] # th[t]
               /\ th'[t].result.status_code = 0 )
               => /\ th'[t].pc = "done" /\ th'[t].resp.status = 502
                  /\ \A h \in DOMAIN heap : heap'[h].sync_offset = heap[h].sync_offset
        /\ ( Calls({ "sync" }) /\ client'.last.transport = "failed" )
             => /\ client'.last.raised = "NetworkError"
                /\ client'.sender.sync_offset = client.sender.sync_offset ]_vars

\* C19 witness: POST /sync was answered 502 for a session whose sender is
\* started and whose sync_offset is 1.
C19_Witness ==
    \E t \in Threads :
        /\ Answered(t, "sync") /\ th[t].resp.status = 502
        /\ th[t].ref # NoObj
        /\ heap[th[t].ref].sync_offset = 1
        /\ senders[heap[th[t].ref].sender].started

\* sender.sync() got an answer without a server timestamp in this step
SyncsBlind ==
    /\ Calls({ "sync" })
    /\ client'.last.transport = "answered"
    /\ client'.last.result.server_timestamp = NoServerTimestamp
    /\ client'.last.raised = ""

\* C20 as stated: a sync whose heartbeat response has no server timestamp
\* completes and leaves the stored offset as it was (zero at registration),
\* for sender.sync(), POST /sync and the initial sync of a registration.
C20_BlindSyncKeepsOffset ==
    [][ /\ \A t \in Threads :
             /\ ( /\ th[t].pc = "sync_store" /\ th'[t] # th[t]
                  /\ th[t].result.server_timestamp = NoServerTimestamp )
                  => /\ th'[t].resp.status = 200
                     /\ heap'[th[t].ref].sync_offset = heap[th[t].ref].sync_offset
             /\ ( /\ th[t].pc = "reg_create" /\ th'[t].pc = "done"
                  /\ th[t].result.status_code # 0
                  /\ th[t].result.server_timestamp = NoServerTimestamp )
                  => /\ th'[t].resp.status = 200
                     /\ heap'[Len(heap')].sync_offset = 0
        /\ SyncsBlind
             => /\ client'.sender.sync_offset = client.sender.sync_offset
                /\ client'.last.sync_offset = client.sender.sync_offset ]_vars

\* C20 amended: sender.sync() whose heartbeat response has no server
\* timestamp returns without raising and leaves the sender's sync_offset as
\* it was; POST /sync and the initial sync of a registration complete and
\* store half the round trip, rtt_ms // 2, as the session's sync_offset
\* whenever the heartbeat is answered, with a server timestamp or without.
C20_BlindSyncAtTheSender ==
    [][ /\ \A t \in Threads :
             /\ ( th[t].pc = "sync_store" /\ th'[t] # th[t] )
                  => /\ th'[t].resp.status = 200
                     /\ heap'[th[t].ref].sync_offset = th[t].rtt \div 2
             /\ ( /\ th[t].pc = "reg_create" /\ th'[t].pc = "done"
                  /\ th[t].result.status_code # 0 )
                  => /\ th'[t].resp.status = 200
                     /\ heap'[Len(heap')].sync_offset = th[t].rtt \div 2
        /\ SyncsBlind
             => /\ client'.sender.sync_offset = client.sender.sync_offset
                /\ client'.last.sync_offset = client.sender.sync_offset ]_vars

\* C20 witness: sender.sync() returned after an answer without a server
\* timestamp, and the sender has the offset of an earlier sync.
C20_Witness ==
    /\ client.last.fn = "sync" /\ client.last.raised = ""
    /\ client.last.transport = "answered"
    /\ client.last.result.server_timestamp = NoServerTimestamp
    /\ client.sender.sync_offset # 0
    /\ client.last.sync_offset = client.sender.sync_offset

(***************************************************************************)
(* The CORS headers.                                                       *)
(***************************************************************************)
\* the thread has produced the response of its request
Responded(t) == th[t].pc \in { "done", "sent" }

\* the after_request hooks run on the response of thread t in this step
Finalizes(t) == th[t].pc = "done" /\ th'[t].pc = "sent"

\* the store holds a session whose domain is `origin`
LiveFor(origin) ==
    \E sid \in DOMAIN sessions :
        sessions[sid] # NoObj /\ heap[sessions[sid]].domain = origin

\* the headers of a permissive answer to `origin`
Permissive(origin) ==
    [ allow_origin      |-> origin,
      allow_methods     |-> "GET, POST, DELETE, PATCH, OPTIONS",
      allow_headers     |-> "Content-Type, Authorization, X-Admin-Key",
      allow_credentials |-> "true" ]

\* C21: a response to a request whose path is under /keys carries no
\* Access-Control-* header, for every method including an OPTIONS
\* preflight, every Origin, every state of the store and every outcome of
\* the admin gate.
C21_NoCorsUnderKeys ==
    \A t \in Threads :
        ( Responded(t) /\ startswith_keys(request_line(th[t]).path) )
            => th[t].resp.cors = NoCors

\* C21 witness: GET /keys/ has passed the admin gate and its response has
\* gone through the after_request hook, from an origin that has a session.
C21_Witness ==
    \E t \in Threads :
        /\ th[t].pc = "sent" /\ th[t].op = "list_keys"
        /\ th[t].resp.status = 200
        /\ th[t].body.origin = "d1" /\ LiveFor("d1")

\* C22: a POST to the session-registration route or a GET to /health that
\* carries an Origin header is answered with that origin in
\* Access-Control-Allow-Origin, the full method and header allow-lists and
\* Access-Control-Allow-Credentials: true, whether or not the origin has a
\* session and whatever the status of the response.
C22_PermissiveRoutesEcho ==
    \A t \in Threads :
        ( /\ th[t].pc = "sent"
          /\ th[t].op \in { "register", "health" }
          /\ th[t].body.origin # "" )
            => th[t].resp.cors = Permissive(th[t].body.origin)

\* C23: when the response of a request that is not a preflight, is not
\* under /keys and is not a registration POST or GET /health is produced,
\* it gets CORS headers if and only if the store holds a session whose
\* domain is the request's Origin, and then they are the origin, the
\* methods, the reduced header list and credentials; otherwise it carries
\* no Access-Control-* header.
C23_DynamicCors ==
    [][ \A t \in Threads :
          ( /\ Finalizes(t)
            /\ th[t].op # "preflight"
            /\ ~startswith_keys(request_line(th[t]).path)
            /\ ~( th[t].op \in { "register", "health" } )
            /\ ~( request_line(th[t]).method = "POST"
                  /\ request_line(th[t]).path = "/live" ) )
            => IF LiveFor(th[t].body.origin)
               THEN th'[t].resp.cors =
                      [ Permissive(th[t].body.origin)
                          EXCEPT !.allow_headers = "Content-Type, Authorization" ]
               ELSE th'[t].resp.cors = NoCors ]_vars

\* C23 witness: a GET /live/ from the origin of a stored session has been
\* answered with the origin and the reduced header list.
C23_Witness ==
    \E t \in Threads :
        /\ th[t].pc = "sent" /\ th[t].op = "status"
        /\ th[t].body.origin = "d1"
        /\ th[t].resp.cors.allow_origin = "d1"
        /\ th[t].resp.cors.allow_headers = "Content-Type, Authorization"

\* C24: an OPTIONS request is answered 204 before any gate or handler, and
\* the CORS headers of the answer follow the rules of the other methods:
\* none under /keys; the origin echoed on the paths of the permissive
\* routes for any origin; elsewhere the origin echoed when it has a
\* session, and no Access-Control-* header when it has none.
C24_PreflightSameRules ==
    [][ \A t \in Threads :
          ( served' # served /\ th'[t].op = "preflight" /\ th'[t] # th[t] )
            => LET path   == th'[t].body.path
                   origin == th'[t].body.origin
                   cors   == th'[t].resp.cors
               IN  /\ th'[t].resp.status = 204
                   /\ th'[t].pc = "done"
                   /\ IF startswith_keys(path) \/ origin = "" THEN cors = NoCors
                      ELSE IF path \in { "/live/", "/live", "/health" } \/ LiveFor(origin)
                      THEN cors.allow_origin = origin
                      ELSE cors = NoCors ]_vars

(***************************************************************************)
(* Session ids and the key table.                                          *)
(***************************************************************************)
\* C25: make_session_id gives one triple one id, and two triples that
\* differ in a field are given different ids: the strings fed to the
\* digest differ whenever the triples differ.
C25_DistinctTriplesDistinctIds ==
    lib.fn = "make_session_id"
        => ( lib.ids[1] = lib.ids[2] <=> lib.triples[1] = lib.triples[2] )

\* revoke_key or delete_key is called on `key` in this step
CallsOn(fn, key) ==
    /\ lib'.fn = fn /\ lib'.key = key
    /\ ( lib' # lib \/ db' # db )

\* C29: revoke_key clears the active flag of the row and nothing else, the
\* row stays retrievable and validate_api_key then reports revoked;
\* delete_key removes the row and validate_api_key then reports an
\* unknown key; each returns True if and only if the key had a row, and
\* when it returns False the table is as it was.
C29_RevokeAndDelete ==
    [][ \A key \in ApiKeys :
          /\ CallsOn("revoke_key", key)
               => /\ lib'.returned = get_key(db, key).present
                  /\ IF lib'.returned
                     THEN /\ db' = [ db EXCEPT ![key].active = 0 ]
                          /\ get_key(db', key).present
                          /\ validate_api_key(db', key, now).reason = "revoked"
                     ELSE db' = db
          /\ CallsOn("delete_key", key)
               => /\ lib'.returned = get_key(db, key).present
                  /\ IF lib'.returned
                     THEN /\ ~get_key(db', key).present
                          /\ \A k \in ApiKeys \ { key } : db'[k] = db[k]
                          /\ validate_api_key(db', key, now).reason = "unknown_key"
                     ELSE db' = db ]_vars

\* C29 witness: revoke_key has returned True for a key that was active and
\* is not expired, and its row is in the table with the active flag clear.
C29_Witness ==
    /\ lib.fn = "revoke_key" /\ lib.returned
    /\ lib.row.active = 1
    /\ db[lib.key].present /\ db[lib.key].active = 0
    /\ db[lib.key].owner = "alice" /\ db[lib.key].expires_at = Null

(***************************************************************************)
(* Best-effort steps of the session routes.                                *)
(***************************************************************************)
\* the call of end() that thread t makes in this step raises
EndRaises(t) ==
    /\ th[t].pc = "remove_end" /\ th'[t] # th[t]
    /\ senders'[heap[th[t].ref].sender].started
    /\ senders'[heap[th[t].ref].sender].raised

\* C26: DELETE /live on a session it has found goes on to remove the
\* session when the sender's end() raises as when it returns, and then
\* answers 200 with removed: true and the session id, the id being absent
\* from the store.
C26_TeardownSwallowsEnd ==
    [][ \A t \in Threads :
          /\ ( th[t].pc = "remove_end" /\ th'[t] # th[t] )
               => th'[t].pc = "remove_pop"
          /\ EndRaises(t) => th'[t].resp.status = 0
          /\ ( th[t].pc = "remove_pop" /\ th'[t] # th[t] )
               => /\ th'[t].pc = "done"
                  /\ th'[t].resp.status = 200
                  /\ th'[t].resp.removed
                  /\ th'[t].resp.sessionId = th[t].sid
                  /\ sessions'[th[t].sid] = NoObj ]_vars

\* C26 witness: DELETE /live was answered 200 with removed: true, the
\* session is not in the store, and the end() it called raised (the sender
\* was last ended by the teardown and is still started).
C26_Witness ==
    \E t \in Threads :
        /\ th[t].pc = "done" /\ th[t].op = "remove"
        /\ th[t].resp.status = 200 /\ th[t].resp.removed
        /\ sessions[th[t].sid] = NoObj
        /\ senders[heap[th[t].ref].sender].by = "remove"
        /\ senders[heap[th[t].ref].sender].raised
        /\ senders[heap[th[t].ref].sender].started

\* the initial sync of the registration thread t is completing has failed:
\* the heartbeat raised, and there is no SendResult
InitialSyncFailed(t) == th[t].made # NoObj /\ th[t].result.status_code = 0

\* C27: when the heartbeat of the initial sync of a new registration
\* raises, POST /live still stores the session and answers 200, and the
\* syncOffset of the response and of the stored session is 0.
C27_FailedInitialSync ==
    [][ \A t \in Threads :
          ( th[t].pc = "reg_create" /\ th'[t] # th[t] /\ InitialSyncFailed(t) )
            => /\ th'[t].pc = "done"
               /\ th'[t].resp.status = 200
               /\ th'[t].resp.syncOffset = 0
               /\ sessions'[th[t].sid] # NoObj
               /\ heap'[sessions'[th[t].sid]].sync_offset = 0
               /\ heap'[sessions'[th[t].sid]].sender = th[t].made ]_vars

\* C27 witness: a registration whose initial heartbeat raised was answered
\* 200 with syncOffset 0, and its session is in the store.
C27_Witness ==
    \E t \in Threads :
        /\ th[t].pc = "done" /\ th[t].op = "register"
        /\ InitialSyncFailed(t)
        /\ th[t].resp.status = 200 /\ th[t].resp.syncOffset = 0
        /\ sessions[th[t].sid] # NoObj
        /\ heap[sessions[th[t].sid]].sync_offset = 0

(***************************************************************************)
(* Shutdown.                                                               *)
(***************************************************************************)
\* C28: once stop_cleanup has set the stop event no sweep begins, and
\* stop_cleanup returns only after the reaper thread has ended.
C28_StopIsAwaited ==
    [][ /\ ( reaper # "sweeping" /\ reaper' = "sweeping" ) => ~cleanup.stop_event
        /\ cleanup'.caller = "returned" => reaper' = "exited" ]_vars

(***************************************************************************)
(* The MCP server.                                                         *)
(***************************************************************************)
\* task k takes, in this step, a tool call that names session sid
Names(k, sid) ==
    /\ mcp.task[k].pc = "idle" /\ mcp'.task[k] # mcp.task[k]
    /\ mcp'.task[k].tool # "start"
    /\ mcp'.task[k].session_id = sid

\* C30: stop removes the session and its metadata and calls end() of its
\* sender once: no sender is ever ended twice, also with two stops of one
\* id in flight together, and a stop that has returned leaves the id out
\* of both dicts.  A tool call that names an id that stop has removed, a
\* second stop included, raises ValueError (Unknown session_id) at once
\* and changes nothing.
C30_StopOnce ==
    [][ /\ \A sid \in 1..MaxObjs : mcp'.ends[sid] <= 1
        /\ \A k \in Tasks :
             ( mcp.task[k].pc = "ending" /\ mcp'.task[k].pc = "idle" )
               => LET sid == mcp.task[k].session_id
                  IN  /\ mcp'.ends[sid] = 1
                      /\ sid \notin mcp'.sessions
                      /\ sid \notin mcp'.session_meta
        /\ \A k \in Tasks, sid \in 1..MaxObjs :
             ( /\ Names(k, sid)
               /\ \/ mcp.ends[sid] > 0
                  \/ \E j \in Tasks : /\ mcp.task[j].pc = "ending"
                                      /\ mcp.task[j].session_id = sid )
               => /\ mcp'.task[k].pc = "idle"
                  /\ mcp'.task[k].raised = "ValueError"
                  /\ mcp'.sessions = mcp.sessions
                  /\ mcp'.session_meta = mcp.session_meta
                  /\ mcp'.ends = mcp.ends ]_vars

\* C30 witness: a stop of session 1 is awaiting end() while a second stop
\* of session 1 has raised ValueError, and end() was not called yet.
C30_Witness ==
    \E j \in Tasks, k \in Tasks :
        /\ mcp.task[j].tool = "stop" /\ mcp.task[j].session_id = 1
        /\ mcp.task[j].pc = "ending"
        /\ mcp.task[k].tool = "stop" /\ mcp.task[k].session_id = 1
        /\ mcp.task[k].pc = "idle" /\ mcp.task[k].raised = "ValueError"
        /\ mcp.ends[1] = 0

(***************************************************************************)
(* Activity, sequence numbers and tokens of a session.                     *)
(***************************************************************************)
\* thread t answers its request in this step
Answers(t) == th[t].pc # "done" /\ th'[t].pc = "done"

\* C31: a GET /live, POST /captions, POST /sync or idempotent
\* re-registration that succeeds sets the last_activity_at of the session
\* the store holds under its id to the current time, never to an earlier
\* value than it held; a request answered 400, 401 or 404 leaves the
\* last_activity_at of every session as it was.
C31_ActivityOnSuccessOnly ==
    [][ \A t \in Threads :
          Answers(t) =>
            /\ ( /\ th'[t].resp.status = 200
                 /\ \/ th'[t].op \in { "status", "captions", "sync" }
                    \/ th'[t].op = "register" /\ th[t].pc = "reg_touch"
                 /\ sessions[th'[t].sid] # NoObj )
                 => /\ heap'[sessions[th'[t].sid]].last_activity_at = now
                    /\ heap'[sessions[th'[t].sid]].last_activity_at
                         >= heap[sessions[th'[t].sid]].last_activity_at
            /\ th'[t].resp.status \in { 400, 401, 404 }
                 => \A h \in DOMAIN heap :
                      heap'[h].last_activity_at = heap[h].last_activity_at ]_vars

\* C32: decode checks in a fixed order: a token that has not exactly three
\* segments is malformed (DecodeError); otherwise a signature that is not
\* the MAC of the first two segments under the secret is an
\* InvalidSignatureError, whatever the payload; otherwise a payload that
\* cannot be decoded is malformed; otherwise an exp before the current time
\* is an ExpiredSignatureError, and an exp equal to it is accepted.
C32_DecodeOrder ==
    lib.fn = "decode_token" =>
        LET tk  == lib.token
            err == lib.decoded.error
        IN  IF Len(tk) # 3 THEN err = "DecodeError"
            ELSE IF ~( tk[3].b64
                       /\ tk[3].data = hmac_digest(lib.verify, << tk[1], tk[2] >>) )
            THEN err = "InvalidSignatureError"
            ELSE IF ~tk[2].b64 \/ ~tk[2].data.json THEN err = "DecodeError"
            ELSE LET payload == json_loads(tk[2].data)
                 IN  IF "exp" \in DOMAIN payload /\ payload["exp"] < lib.at
                     THEN err = "ExpiredSignatureError"
                     ELSE lib.decoded.ok /\ lib.decoded.payload = payload

SyncAnswers(t) == th[t].pc = "sync_store" /\ th'[t].pc = "done"

\* thread t answers a registration that created a session
RegistrationAnswers(t) == th[t].pc = "reg_create" /\ th'[t].pc = "done"

\* C34: the round trip of a relay sync is the elapsed monotonic time cut to
\* whole milliseconds and the offset is the floor of half of it, so that
\* 0 <= syncOffset <= roundTripTime; the 200 of POST /sync returns the offset
\* that the session then holds, and a registration whose initial sync
\* succeeded returns and stores the offset of its own round trip.
C34_OffsetIsHalfTheRoundTrip ==
    [][ \A t \in Threads :
          /\ SyncAnswers(t) =>
                LET rtt    == th[t].rtt
                    offset == th'[t].resp.syncOffset
                IN  /\ rtt * 1000 <= th[t].elapsed /\ th[t].elapsed < (rtt + 1) * 1000
                    /\ 2 * offset <= rtt /\ rtt < 2 * offset + 2
                    /\ 0 <= offset /\ offset <= rtt
                    /\ heap'[th[t].ref].sync_offset = offset
          /\ RegistrationAnswers(t) /\ th[t].result.status_code # 0 =>
                LET rtt    == th[t].rtt
                    offset == th'[t].resp.syncOffset
                IN  /\ rtt * 1000 <= th[t].elapsed /\ th[t].elapsed < (rtt + 1) * 1000
                    /\ 2 * offset <= rtt /\ rtt < 2 * offset + 2
                    /\ heap'[sessions'[th[t].sid]].sync_offset = offset ]_vars

\* C34 witness: a POST /sync has answered 200 with the offset 1 of a round
\* trip of two or three milliseconds, and the session holds that offset
C34_Witness ==
    \E t \in Threads :
        /\ th[t].pc = "done" /\ th[t].op = "sync" /\ th[t].resp.status = 200
        /\ th[t].resp.syncOffset = 1
        /\ th[t].ref # NoObj /\ heap[th[t].ref].sync_offset = 1

(***************************************************************************)
(* The columns of a key.                                                   *)
(***************************************************************************)
\* this step is a call of update_key
Updates == lib'.fn = "update_key" /\ lib' # lib

\* C35: update_key writes only the columns it is given: owner is kept when
\* omitted, expires_at is kept when omitted and cleared when None is given;
\* the row stays under its key with its active flag and creation time, no
\* other row changes; it returns False and changes nothing when no column is
\* given or when the key has no row.
C35_UpdateKeyFrame ==
    [][ Updates =>
          LET key    == lib'.key
              before == get_key(db, key)
              after  == get_key(db', key)
              none   == lib'.owner = None /\ ~lib'.expires.given
          IN  /\ \A k \in DOMAIN db : k # key => db'[k] = db[k]
              /\ DOMAIN db' = DOMAIN db
              /\ after.present = before.present
              /\ after.active = before.active
              /\ after.created_at = before.created_at
              /\ lib'.owner = None => after.owner = before.owner
              /\ ~lib'.expires.given => after.expires_at = before.expires_at
              /\ ( before.present /\ lib'.expires.given /\ lib'.expires.at = Null )
                    => after.expires_at = Null
              /\ ( before.present /\ lib'.owner # None ) => after.owner = lib'.owner
              /\ ( before.present /\ lib'.expires.given )
                    => after.expires_at = lib'.expires.at
              /\ ( none \/ ~before.present ) => ( ~lib'.returned /\ db' = db )
              /\ lib'.returned <=> ( before.present /\ ~none ) ]_vars

\* C35 witness: update_key was given only expires_at=None for a key with an
\* expiry; it returned True, cleared the expiry and kept the owner
C35_Witness ==
    /\ lib.fn = "update_key" /\ lib.returned
    /\ lib.owner = None /\ lib.expires.given /\ lib.expires.at = Null
    /\ lib.row.present /\ lib.row.expires_at # Null
    /\ get_key(db, lib.key).expires_at = Null
    /\ get_key(db, lib.key).owner = lib.row.owner

(***************************************************************************)
(* What a sweep and the handlers do to the store.                          *)
(***************************************************************************)
\* this step is a pass of the reaper that removed a session: no handler
\* moved, time did not pass, and a stored session is gone
Swept ==
    /\ th' = th /\ now' = now
    /\ \E sid \in DOMAIN sessions : sessions[sid] # NoObj /\ sessions'[sid] = NoObj

\* the session stored under sid was created or touched at now - TTL or later
Fresh(sid) ==
    /\ sessions[sid] # NoObj
    /\ heap[sessions[sid]].last_activity_at >= now - session_ttl(env)

\* C36: a sweep removes no session whose last_activity_at is not strictly
\* older than now - TTL; the sessions it does not remove stay in the store
\* with the same dict, untouched, and their senders are not ended.
C36_SweepSparesTheFresh ==
    [][ Swept =>
          /\ heap' = heap
          /\ \A sid \in DOMAIN sessions :
                /\ Fresh(sid) => sessions'[sid] # NoObj
                /\ ( sessions[sid] # NoObj /\ sessions'[sid] # NoObj )
                      => /\ sessions'[sid] = sessions[sid]
                         /\ senders'[heap[sessions[sid]].sender]
                              = senders[heap[sessions[sid]].sender] ]_vars

\* C36 witness: of two sessions a sweep at time 2 has removed the one last
\* active at time 0 and ended its sender, and has kept the one last active
\* at time 1, one idle timeout earlier, with its sender started
C36_Witness ==
    /\ now = 2 /\ session_ttl(env) = 1
    /\ \E gone \in DOMAIN sessions, kept \in DOMAIN sessions :
          /\ sessions[gone] = NoObj /\ sessions[kept] # NoObj
          /\ heap[sessions[kept]].last_activity_at = 1
          /\ senders[heap[sessions[kept]].sender].started
          /\ senders[heap[sessions[kept]].sender].ends = 0
          /\ \E o \in DOMAIN heap :
                /\ heap[o].session_id = gone /\ heap[o].last_activity_at = 0
                /\ senders[heap[o].sender].by = "sweep"

\* thread t stores the session it created under sid in this step
StoresNew(t, sid) ==
    /\ th[t].op = "register" /\ th[t].pc = "reg_create" /\ th'[t].pc = "done"
    /\ th[t].sid = sid /\ th'[t].resp.status = 200

\* thread t holds a session dict it looked up that the store no longer
\* holds: the session was torn down or evicted, or replaced, in between
Stale(t) ==
    /\ th[t].pc \notin { "idle", "done" }
    /\ th[t].op \in { "status", "captions", "sync" }
    /\ th[t].ref # NoObj /\ sessions[th[t].sid] # th[t].ref

\* C37: a session id goes from absent to stored only in the step in which
\* a registration of its triple stores the session it created; a GET /live,
\* POST /captions or POST /sync that holds a session no longer stored leaves
\* the store as it is when it writes and touches; and an id that is absent
\* stays absent in every other step.
C37_OnlyRegistrationInserts ==
    [][ /\ \A sid \in DOMAIN sessions :
             ( sessions[sid] = NoObj /\ sessions'[sid] # NoObj )
               => \E t \in Threads :
                    /\ StoresNew(t, sid)
                    /\ sessions'[sid] = Len(heap') /\ Len(heap') = Len(heap) + 1
        /\ \A t \in Threads :
             ( Stale(t) /\ th'[t] # th[t] ) => sessions' = sessions ]_vars

\* C37 witness: a handler that looked a session up is about to write and
\* touch, the session was removed under it and its id is absent
C37_Witness ==
    \E t \in Threads :
        /\ Stale(t) /\ sessions[th[t].sid] = NoObj
        /\ th[t].pc \in { "status_touch", "sync_store", "captions_store" }

\* the POST of the caption request thread t is serving, or has answered,
\* was accepted by the upstream with a 2xx status
Accepted(t) ==
    /\ th[t].op = "captions" /\ th[t].ref # NoObj
    /\ th[t].upstream \in 200..299
    /\ th[t].pc \in { "captions_inc", "captions_seq", "captions_store", "done" }

\* C38: two caption submissions of one session that the upstream accepted
\* never carry the same sequence number.
C38_AcceptedSequencesDiffer ==
    \A t \in Threads, u \in Threads :
        ( t # u /\ Accepted(t) /\ Accepted(u) /\ th[t].ref = th[u].ref )
          => th[t].sent # th[u].sent

\* thread t has answered a registration with a token
Issued(t) == th[t].op = "register" /\ th[t].pc = "done" /\ th[t].resp.status = 200

\* thread u accepts, in this step, a request on a bearer route that carries
\* token k in its Authorization header
Bears(u, k) ==
    /\ Presents(u) /\ \A v \in Threads \ { u } : th'[v] = th[v]
    /\ th'[u].body.bearer /\ th'[u].body.token = k

\* C39: the token of a triple is the same at every registration of the
\* triple, and a request that presents a token some registration issued,
\* however long ago and whatever happened to the session since, passes the
\* bearer gate and is served from the session the store holds under the
\* triple's id at that time (404 when it holds none).
C39_TokenOutlivesItsSession ==
    [][ \A t \in Threads :
          Issued(t) =>
            /\ \A u \in Threads :
                  ( Issued(u) /\ th[u].resp.sessionId = th[t].resp.sessionId )
                    => th[u].resp.token = th[t].resp.token
            /\ \A u \in Threads :
                  Bears(u, th[t].resp.token) =>
                    LET sid == th[t].resp.sessionId
                    IN  /\ th'[u].resp.status # 401
                        /\ IF th'[u].op = "captions" /\ th'[u].resp.status = 400
                           THEN TRUE
                           ELSE IF sessions[sid] = NoObj
                           THEN th'[u].pc = "done" /\ th'[u].resp.status = 404
                           ELSE th'[u].pc # "done" /\ th'[u].ref = sessions[sid] ]_vars

\* C39 witness: thread t holds the token of the registration that created
\* the first session of a triple; that session is gone, a later registration
\* stored a second one, and a request with t's token was answered 200 from
\* the second session
C39_Witness ==
    \E t \in Threads, u \in Threads :
        /\ t # u /\ Issued(t)
        /\ Len(heap) = 2 /\ heap[1].sender = th[t].made
        /\ heap[2].session_id = heap[1].session_id
        /\ sessions[heap[1].session_id] = 2
        /\ th[u].op \in { "status", "sync", "captions" } /\ th[u].pc = "done"
        /\ th[u].body.token = th[t].resp.token
        /\ th[u].ref = 2 /\ th[u].resp.status = 200

(***************************************************************************)
(* Sessions and the key they were registered with.                         *)
(***************************************************************************)
\* the API key is revoked or has no row: a registration with it is refused
Unusable(key) == ~get_key(db, key).present \/ get_key(db, key).active = 0

\* the claims of the token of the request thread t is serving
ClaimsOf(t) == jwt_decode(th[t].body.token, JWT_SECRET).payload

\* thread t serves, or has answered, a request on a bearer route
OnBearerRoute(t) ==
    th[t].op \in { "status", "remove", "captions", "sync" } /\ th[t].pc # "idle"

\* C40: while a session is in the store, a request with its token is served
\* from it although its API key has been revoked or deleted: the request
\* passes the gate and finds the session, and no answer on a bearer route
\* is a 401; GET /live and DELETE /live are answered 200, POST /sync and
\* POST /captions 200 unless the upstream fails or refuses.  A registration
\* with the key is refused 401.
C40_RevokedKeyKeepsItsSession ==
    [][ \A t \in Threads :
          /\ ( /\ Presents(t) /\ th'[t] # th[t] /\ th'[t].body.bearer
               /\ Unusable(ClaimsOf(t)'.apiKey)
               /\ sessions[ClaimsOf(t)'.sessionId] # NoObj )
                => /\ th'[t].pc # "done"
                   /\ th'[t].ref = sessions[ClaimsOf(t)'.sessionId]
          /\ ( OnBearerRoute(t) /\ Answers(t) /\ th[t].ref # NoObj )
                => /\ th'[t].resp.status
                        \in CASE th[t].op \in { "status", "remove" } -> { 200 }
                               [] th[t].op = "sync" -> { 200, 502 }
                               [] OTHER -> { 200, 502 } \cup UpstreamStatuses
                   /\ ( th[t].op = "captions" /\ th[t].upstream \in 200..299 )
                         => th'[t].resp.status = 200
          /\ ( /\ Registers(t) /\ th'[t] # th[t]
               /\ th'[t].body.apiKey \in ApiKeys /\ Unusable(th'[t].body.apiKey) )
                => th'[t].pc = "done" /\ th'[t].resp.status \in { 400, 401 } ]_vars

\* C40 witness: a request with the session's token was answered 200 from
\* the stored session while the key of its claims is revoked or deleted
C40_Witness ==
    \E t \in Threads :
        /\ OnBearerRoute(t) /\ th[t].pc = "done" /\ th[t].resp.status = 200
        /\ th[t].op \in { "status", "captions", "sync" }
        /\ th[t].after = FALSE
        /\ th[t].ref # NoObj /\ sessions[th[t].sid] = th[t].ref
        /\ Unusable(ClaimsOf(t).apiKey)

====
